---- MODULE Spec2Model ----
(***************************************************************************)
(* Model of the time-advance engine of MUSIC (advance.cpp): one            *)
(* Runge-Kutta sub-step over the grid (AdvanceIt), the per-cell ideal      *)
(* update (FirstRKStepT), the per-cell dissipative update (FirstRKStepW),  *)
(* and the regularization stage (QuestRevert, nCausalityConstraints,       *)
(* sCausalityConstraints, QuestRevert_qmu), plus MaxSpeed.                 *)
(*                                                                         *)
(* Numbers.  A C++ double is modelled by an extended rational <<n, d>>:    *)
(*   finite, non-zero   <<n, d>>  with d > 0 and gcd(|n|, d) = 1           *)
(*   +0.0 / -0.0        <<0, 1>> / <<0, -1>>                               *)
(*   +inf / -inf        <<1, 0>> / <<-1, 0>>                               *)
(*   NaN                <<0, 0>>                                           *)
(* Every result is rounded to a fraction of at most Digits in numerator    *)
(* and denominator.  The special values follow IEEE 754 (x/0, 0/0,         *)
(* inf-inf, signed zeros, comparisons with NaN).                           *)
(***************************************************************************)
EXTENDS Integers, Sequences, FiniteSets, TLC

-----------------------------------------------------------------------------
(* State *)

VARIABLES
    DATA,               \* InitData: the configuration flags and step sizes
    eos,                \* the equation of state held by Advance
    transport_coeffs_,  \* the two relaxation-time factors of TransportCoeffs
    flag_add_hydro_source,
    diss_helper,        \* what Diss returns, per sub-step and cell
    hydro_source_terms_ptr,  \* what the hydro source returns, per sub-step and cell
    reconst_helper,     \* the Reconstructor: how it reports a failed inversion
    tau,
    rk_flag,
    arena_prev, arena_current, arena_future,
    pc,                 \* where the loop body of each cell stands
    phase,              \* "idle", "advance" (inside AdvanceIt), "exited"
    necessary_log, sufficient_log,   \* the two reduction-factor files
    trace,              \* per cell: what the last sub-step did (history)
    probe               \* the argument and result of a function applied alone

vars == <<DATA, eos, transport_coeffs_, flag_add_hydro_source, diss_helper,
          hydro_source_terms_ptr, reconst_helper, tau, rk_flag,
          arena_prev, arena_current, arena_future, pc, phase,
          necessary_log, sufficient_log, trace, probe>>

-----------------------------------------------------------------------------
(* Extended rationals *)

Abs(i) == IF i < 0 THEN -i ELSE i

Sgn(i) == IF i > 0 THEN 1 ELSE IF i < 0 THEN -1 ELSE 0

RECURSIVE Gcd(_, _)
Gcd(a, b) == IF b = 0 THEN a ELSE Gcd(b, a % b)

NaN == <<0, 0>>

Inf(s) == <<s, 0>>

Zero(s) == <<0, s>>

IsNaN(x) == x[1] = 0 /\ x[2] = 0

IsInf(x) == x[1] # 0 /\ x[2] = 0

IsZero(x) == x[1] = 0 /\ x[2] # 0

IsFinite(x) == x[2] # 0

\* the sign bit of a double: 1 or -1 (0 for NaN)
Sign(x) == IF x[1] # 0 THEN Sgn(x[1]) ELSE Sgn(x[2])

\* the positive denominator of a finite value
DenP(x) == Abs(x[2])

\* n/d for integers n, d with d # 0, normalized; 0/d is +0.0
Frac(n, d) ==
    IF n = 0 THEN Zero(1)
    ELSE LET g == Gcd(Abs(n), Abs(d))
         IN  <<(Sgn(d) * n) \div g, Abs(d) \div g>>

Num(n) == Frac(n, 1)

RNeg(x) == IF x[1] # 0 THEN <<-x[1], x[2]>> ELSE <<0, -x[2]>>

RAbs(x) == IF x[1] # 0 THEN <<Abs(x[1]), x[2]>> ELSE <<0, Abs(x[2])>>

\* A double carries finitely many digits.  A value whose numerator or
\* denominator exceeds Digits is rounded toward zero to a fraction within
\* Digits; beyond the range it overflows to infinity or underflows to zero.
\* Every sum and product is rounded, so x + 0 and x * 1 are x.
Digits == 30000

Rnd(x) ==
    IF x[1] = 0 \/ x[2] = 0 THEN x
    ELSE IF Abs(x[1]) <= Digits /\ x[2] <= Digits THEN x
    ELSE LET k == ((IF Abs(x[1]) > x[2] THEN Abs(x[1]) ELSE x[2]) \div Digits) + 1
         IN  IF x[2] \div k = 0 THEN Inf(Sgn(x[1]))
             ELSE IF Abs(x[1]) \div k = 0 THEN Zero(Sgn(x[1]))
             ELSE Frac(Sgn(x[1]) * (Abs(x[1]) \div k), x[2] \div k)

\* the product of two rounded operands
MulRounded(x, y) ==
    IF IsNaN(x) \/ IsNaN(y) THEN NaN
    ELSE IF IsInf(x) \/ IsInf(y)
         THEN IF IsZero(x) \/ IsZero(y) THEN NaN ELSE Inf(Sign(x) * Sign(y))
    ELSE IF IsZero(x) \/ IsZero(y) THEN Zero(Sign(x) * Sign(y))
    ELSE LET g1 == Gcd(Abs(x[1]), y[2])
             g2 == Gcd(Abs(y[1]), x[2])
         IN  <<(x[1] \div g1) * (y[1] \div g2), (x[2] \div g2) * (y[2] \div g1)>>

RMul(x, y) == Rnd(MulRounded(Rnd(x), Rnd(y)))

\* the sum of two rounded operands
AddRounded(x, y) ==
    IF IsNaN(x) \/ IsNaN(y) THEN NaN
    ELSE IF IsInf(x)
         THEN IF IsInf(y) /\ y # x THEN NaN ELSE x
    ELSE IF IsInf(y) THEN y
    ELSE IF IsZero(x) /\ IsZero(y)
         THEN IF x = y THEN x ELSE Zero(1)
    ELSE IF IsZero(x) THEN y
    ELSE IF IsZero(y) THEN x
    ELSE LET g == Gcd(x[2], y[2])
         IN  Frac(x[1] * (y[2] \div g) + y[1] * (x[2] \div g), (x[2] \div g) * y[2])

RAdd(x, y) == Rnd(AddRounded(Rnd(x), Rnd(y)))

RSub(x, y) == RAdd(x, RNeg(y))

RDiv(x, y) ==
    IF IsNaN(x) \/ IsNaN(y) THEN NaN
    ELSE IF IsInf(x)
         THEN IF IsInf(y) THEN NaN ELSE Inf(Sign(x) * Sign(y))
    ELSE IF IsInf(y) THEN Zero(Sign(x) * Sign(y))
    ELSE IF IsZero(y)
         THEN IF IsZero(x) THEN NaN ELSE Inf(Sign(x) * Sign(y))
    ELSE IF IsZero(x) THEN Zero(Sign(x) * Sign(y))
    ELSE RMul(x, <<Sgn(y[1]) * y[2], Abs(y[1])>>)

\* a/b < c/d for integers with b, d > 0, by continued fractions (no products)
RECURSIVE FracLt(_, _, _, _)
FracLt(a, b, c, d) ==
    IF a \div b # c \div d THEN a \div b < c \div d
    ELSE IF c % d = 0 THEN FALSE
    ELSE IF a % b = 0 THEN TRUE
    ELSE FracLt(d, c % d, b, a % b)

\* the C++ comparisons: every comparison with NaN is false, -0.0 == +0.0
RLt(x, y) ==
    IF IsNaN(x) \/ IsNaN(y) THEN FALSE
    ELSE IF IsInf(x) THEN x[1] < 0 /\ y # x
    ELSE IF IsInf(y) THEN y[1] > 0
    ELSE FracLt(x[1], DenP(x), y[1], DenP(y))

RGt(x, y) == RLt(y, x)

REq(x, y) == ~IsNaN(x) /\ ~IsNaN(y) /\ ~RLt(x, y) /\ ~RLt(y, x)

RNe(x, y) == ~REq(x, y)

RLe(x, y) == RLt(x, y) \/ REq(x, y)

RGe(x, y) == RLe(y, x)

\* std::max(a, b) is (a < b) ? b : a
RMax(a, b) == IF RLt(a, b) THEN b ELSE a

\* the same real number (or the same special value), whatever the sign of a zero
SameValue(x, y) == x = y \/ (IsZero(x) /\ IsZero(y))

PosZero == Zero(1)

\* a C++ array: the function f with every element computed
Arr(f) == f @@ <<>>

\* Every evaluation of a function of the model goes through Call, defined
\* below the last of them.
RECURSIVE Call(_, _)

\* infix forms, always parenthesised in the order C++ evaluates
a ++ b == Call("RAdd", <<a, b>>)

a -- b == Call("RSub", <<a, b>>)

a ** b == Call("RMul", <<a, b>>)

a // b == Call("RDiv", <<a, b>>)

-----------------------------------------------------------------------------
(* libm: sqrt and exp.  sqrt is exact on squares of rationals and rounded  *)
(* down to 1/SqrtScale otherwise; exp interpolates a table of e^k.         *)

SqrtScale == 100

RECURSIVE ISqrtIn(_, _, _)
ISqrtIn(n, lo, hi) ==
    IF lo >= hi THEN lo
    ELSE LET mid == (lo + hi + 1) \div 2
         IN  IF mid * mid <= n THEN ISqrtIn(n, mid, hi) ELSE ISqrtIn(n, lo, mid - 1)

\* the integer square root, rounded down
ISqrt(n) == ISqrtIn(n, 0, IF n < 46340 THEN n ELSE 46340)

\* the fractional part r/d, 0 <= r < d, in units of 1/SqrtScale^2, rounded down
FracPart(r, d) ==
    IF d <= 200000 THEN (r * SqrtScale * SqrtScale) \div d
    ELSE LET f == r \div (d \div (SqrtScale * SqrtScale))
         IN  IF f >= SqrtScale * SqrtScale THEN SqrtScale * SqrtScale - 1 ELSE f

RSqrt(x) ==
    IF IsNaN(x) THEN NaN
    ELSE IF IsZero(x) THEN x
    ELSE IF Sign(x) < 0 THEN NaN
    ELSE IF IsInf(x) THEN x
    ELSE LET rn == ISqrt(x[1])
             rd == ISqrt(x[2])
             q  == x[1] \div x[2]
         IN  IF rn * rn = x[1] /\ rd * rd = x[2] THEN <<rn, rd>>
             ELSE IF q >= 200000 THEN Num(ISqrt(q))
             ELSE Frac(ISqrt(q * SqrtScale * SqrtScale + FracPart(x[1] % x[2], x[2])),
                       SqrtScale)

\* e^k for k in -8..3, to three digits
ExpTable(k) ==
    CASE k = 3 -> Frac(201, 10)   [] k = 2 -> Frac(739, 100)
      [] k = 1 -> Frac(68, 25)    [] k = 0 -> Num(1)
      [] k = -1 -> Frac(46, 125)  [] k = -2 -> Frac(27, 200)
      [] k = -3 -> Frac(1, 20)    [] k = -4 -> Frac(9, 500)
      [] k = -5 -> Frac(1, 150)   [] k = -6 -> Frac(1, 400)
      [] k = -7 -> Frac(1, 1100)  [] k = -8 -> Frac(1, 3000)

\* floor of a finite value
Floor(x) == IF x[1] = 0 THEN 0 ELSE x[1] \div x[2]

RExp(x) ==
    IF IsNaN(x) THEN NaN
    ELSE IF IsInf(x) THEN (IF Sign(x) > 0 THEN x ELSE PosZero)
    ELSE IF Floor(x) < -8 THEN PosZero
    ELSE IF Floor(x) >= 3 THEN ExpTable(3)
    ELSE LET k == Floor(x)
         IN  ExpTable(k) ++ ((x -- Num(k)) ** (ExpTable(k + 1) -- ExpTable(k)))

-----------------------------------------------------------------------------
(* Equation of state: pressure = pratio * e, constant sound speed *)

get_pressure(e, rhob) == Call("RMul", <<eos.pratio, e>>)

get_cs2(e, rhob) == eos.cs2

get_dpde(e, rhob) == eos.dpde

(* transport_coeffs.h *)

get_shear_relax_time_factor == transport_coeffs_.shear_relax_time_factor

get_bulk_relax_time_factor == transport_coeffs_.bulk_relax_time_factor

get_tau_pipi_coeff == Frac(10, 7)

get_delta_pipi_coeff == Frac(4, 3)

get_lambda_piPi_coeff == Frac(6, 5)

get_lambda_Pipi_coeff == Frac(8, 5)

get_delta_PiPi_coeff == Frac(2, 3)

-----------------------------------------------------------------------------
(* Cells.  Wmunu holds 14 components: 0..9 the shear tensor               *)
(* (00 01 02 03 11 12 13 22 23 33), 10..13 the diffusion current.         *)

WIdx == 0..13

One == Num(1)

Two == Num(2)

Half == Frac(1, 2)

Third == Frac(1, 3)

\* multiply every component of a vector
Scale(vec, f) == Arr([i \in DOMAIN vec |-> Call("RMul", <<vec[i], f>>)])

-----------------------------------------------------------------------------
(* nCausalityConstraints *)

\* the six coefficient groups computed at the top of the function
nParts(grid_pt) ==
    LET eps  == grid_pt.epsilon
        rhob == grid_pt.rhob
        cs2  == get_cs2(eps, rhob)
        tmc  == Call("RSub", <<Third, cs2>>)
    IN  [transportPart_n13 |-> Call("RDiv", <<Call("RMul", <<Two, One>>), get_shear_relax_time_factor>>),
         viscousPart1_n13  |-> get_lambda_piPi_coeff,
         viscousPart2_n13  |-> Call("RMul", <<RNeg(Half), get_tau_pipi_coeff>>),
         transportPart_n56 |->
             Call("RAdd", <<Call("RAdd", <<cs2, Call("RDiv", <<Call("RMul", <<Frac(4, 3), One>>), get_shear_relax_time_factor>>)>>),
                  Call("RMul", <<Call("RMul", <<Call("RDiv", <<One, get_bulk_relax_time_factor>>), tmc>>), tmc>>)>>),
         viscousPart1_n56  |->
             Call("RAdd", <<Call("RAdd", <<Call("RMul", <<Frac(2, 3), get_lambda_piPi_coeff>>), get_delta_PiPi_coeff>>), cs2>>),
         viscousPart2_n56  |->
             Call("RAdd", <<Call("RAdd", <<Call("RAdd", <<get_delta_pipi_coeff, Call("RMul", <<Third, get_tau_pipi_coeff>>)>>),
                       Call("RMul", <<get_lambda_Pipi_coeff, tmc>>)>>), cs2>>)]

\* the pi_b and eigenvalue terms of condition i (0: n1, 1: n3, 2: n5, 3: n6)
nViscous(grid_pt, i) ==
    LET p   == Call("nParts", <<grid_pt>>)
        eps == grid_pt.epsilon
        P   == get_pressure(eps, grid_pt.rhob)
        h   == Call("RAdd", <<eps, P>>)
        pib == grid_pt.pi_b
        L0  == grid_pt.Lambdas[0]
        L2  == grid_pt.Lambdas[2]
    IN  CASE i = 0 -> Call("RAdd", <<Call("RDiv", <<Call("RMul", <<p.viscousPart1_n13, pib>>), h>>),
                           Call("RDiv", <<Call("RMul", <<p.viscousPart2_n13, RAbs(L0)>>), h>>)>>)
          [] i = 1 -> Call("RAdd", <<Call("RDiv", <<Call("RMul", <<p.viscousPart1_n13, pib>>), h>>),
                           Call("RDiv", <<Call("RMul", <<p.viscousPart2_n13, L2>>), h>>)>>)
          [] i = 2 -> Call("RAdd", <<Call("RDiv", <<Call("RMul", <<p.viscousPart1_n56, pib>>), h>>),
                           Call("RDiv", <<Call("RMul", <<p.viscousPart2_n56, L0>>), h>>)>>)
          [] i = 3 -> Call("RAdd", <<Call("RDiv", <<Call("RMul", <<Call("RSub", <<One, p.viscousPart1_n56>>), pib>>), h>>),
                           Call("RDiv", <<Call("RMul", <<Call("RSub", <<One, p.viscousPart2_n56>>), L2>>), h>>)>>)

\* the constant term of condition i
nTransport(grid_pt, i) ==
    LET p == Call("nParts", <<grid_pt>>)
    IN  CASE i \in {0, 1} -> p.transportPart_n13
          [] i = 2 -> p.transportPart_n56
          [] i = 3 -> Call("RSub", <<One, p.transportPart_n56>>)

\* std::vector<double> nCondition {n1, n3, n5, n6}
nCondition(grid_pt) ==
    LET p   == Call("nParts", <<grid_pt>>)
        eps == grid_pt.epsilon
        P   == get_pressure(eps, grid_pt.rhob)
        h   == Call("RAdd", <<eps, P>>)
        pib == grid_pt.pi_b
        L0  == grid_pt.Lambdas[0]
        L2  == grid_pt.Lambdas[2]
    IN  Arr([i \in 0..3 |->
          CASE i = 0 -> Call("RAdd", <<Call("RAdd", <<p.transportPart_n13, Call("RDiv", <<Call("RMul", <<p.viscousPart1_n13, pib>>), h>>)>>),
                             Call("RDiv", <<Call("RMul", <<p.viscousPart2_n13, RAbs(L0)>>), h>>)>>)
            [] i = 1 -> Call("RAdd", <<Call("RAdd", <<p.transportPart_n13, Call("RDiv", <<Call("RMul", <<p.viscousPart1_n13, pib>>), h>>)>>),
                             Call("RDiv", <<Call("RMul", <<p.viscousPart2_n13, L2>>), h>>)>>)
            [] i = 2 -> Call("RAdd", <<Call("RAdd", <<p.transportPart_n56, Call("RDiv", <<Call("RMul", <<p.viscousPart1_n56, pib>>), h>>)>>),
                             Call("RDiv", <<Call("RMul", <<p.viscousPart2_n56, L0>>), h>>)>>)
            [] i = 3 -> Call("RAdd", <<Call("RAdd", <<Call("RSub", <<One, p.transportPart_n56>>),
                                  Call("RDiv", <<Call("RMul", <<Call("RSub", <<One, p.viscousPart1_n56>>), pib>>), h>>)>>),
                             Call("RDiv", <<Call("RMul", <<Call("RSub", <<One, p.viscousPart2_n56>>), L2>>), h>>)>>)])

\* the candidate without its minus sign
nCandidate_unsigned(grid_pt, i) == Call("RDiv", <<Call("nTransport", <<grid_pt, i>>), Call("nViscous", <<grid_pt, i>>)>>)

\* the switch: the candidate damping factor of a violated condition i
nCandidate(grid_pt, i) == Call("RDiv", <<RNeg(Call("nTransport", <<grid_pt, i>>)), Call("nViscous", <<grid_pt, i>>)>>)

\* double alp = 1; if (nCondition[i] < 0) { switch ... }
nAlp(grid_pt, i) ==
    IF RLt(Call("nCondition", <<grid_pt>>)[i], PosZero) THEN Call("nCandidate", <<grid_pt, i>>) ELSE One

\* the fold without its else branch: a negative alp is passed over
FoldMin_positiveOnly(minAlp, alp) ==
    IF RGt(alp, PosZero) /\ RLt(alp, minAlp) THEN alp ELSE minAlp

\* if (alp > 0 && alp < minAlp) minAlp = alp; else if (alp < 0) minAlp = 0;
FoldMin(minAlp, alp) ==
    IF RGt(alp, PosZero) /\ RLt(alp, minAlp) THEN alp
    ELSE IF RLt(alp, PosZero) THEN PosZero
    ELSE minAlp

\* the loop over the conditions in the order given by the sequence order
nLoop(grid_pt, order, minAlp) ==
    IF order = <<>> THEN minAlp
    ELSE Call("nLoop", <<grid_pt, Tail(order), Call("FoldMin", <<minAlp, Call("nAlp", <<grid_pt, Head(order)>>)>>)>>)

nMinAlp(grid_pt) == Call("nLoop", <<grid_pt, <<0, 1, 2, 3>>, One>>)

\* the rescaling applied to the densities as well
Rescale_densities(grid_pt, f) ==
    [grid_pt EXCEPT !.pi_b    = Call("RMul", <<grid_pt.pi_b, f>>),
                    !.Wmunu   = Scale(grid_pt.Wmunu, f),
                    !.Lambdas = Scale(grid_pt.Lambdas, f),
                    !.epsilon = Call("RMul", <<grid_pt.epsilon, f>>),
                    !.rhob    = Call("RMul", <<grid_pt.rhob, f>>)]

\* the rescaling shared by both causality methods
Rescale(grid_pt, f) ==
    [grid_pt EXCEPT !.pi_b    = Call("RMul", <<grid_pt.pi_b, f>>),
                    !.Wmunu   = Scale(grid_pt.Wmunu, f),
                    !.Lambdas = Scale(grid_pt.Lambdas, f)]

\* LogRecord with the record written at the threshold too
LogRecord_atThreshold(eps, f, tauArg) ==
    IF RGe(eps, Frac(1, 100)) THEN <<[factor |-> f, eps |-> eps, tau |-> tauArg]>> ELSE <<>>

\* if (eps > 0.01) one record is appended to the file
LogRecord(eps, f, tauArg) ==
    IF RGt(eps, Frac(1, 100)) THEN <<[factor |-> f, eps |-> eps, tau |-> tauArg]>> ELSE <<>>

\* the whole function: the cell after it, the factor, the lines appended
nCausalityConstraints(grid_pt, tauArg) ==
    LET minAlp == Call("nMinAlp", <<grid_pt>>)
    IN  [grid_pt |-> Call("Rescale", <<grid_pt, minAlp>>),
         factor  |-> minAlp,
         lines   |-> LogRecord(grid_pt.epsilon, minAlp, tauArg)]

-----------------------------------------------------------------------------
(* BinarySearch and the three sufficiency functions *)

\* the quantities Suff5, Suff7, Suff8 and sCausalityConstraints all compute first
sParts(grid_pt) ==
    LET eps  == grid_pt.epsilon
        rhob == grid_pt.rhob
        cs2  == get_cs2(eps, rhob)
        P    == get_pressure(eps, rhob)
    IN  [cs2 |-> cs2,
         L1 |-> (grid_pt.Lambdas[0] // (eps ++ P)),
         L2 |-> (grid_pt.Lambdas[1] // (eps ++ P)),
         L3 |-> (grid_pt.Lambdas[2] // (eps ++ P)),
         Pi |-> (grid_pt.pi_b // (eps ++ P)),
         s_relax |-> (One // get_shear_relax_time_factor),
         b_relax |-> (((One // get_bulk_relax_time_factor) ** (Third -- cs2)) ** (Third -- cs2)),
         lam_piPi |-> get_lambda_piPi_coeff,
         tau_pipi |-> get_tau_pipi_coeff,
         del_PiPi |-> get_delta_PiPi_coeff,
         del_pipi |-> get_delta_pipi_coeff,
         lam_Pipi |-> get_lambda_Pipi_coeff]

Suff5(beta, grid_pt) ==
    LET q   == Call("sParts", <<grid_pt>>)
        aL1 == RAbs(q.L1)
        t0  == ((One -- q.cs2) -- (Frac(4, 3) ** q.s_relax)) -- q.b_relax
        t1  == beta ** (((((((q.cs2 -- One) ++ (Frac(2, 3) ** q.lam_piPi)) ++ q.del_PiPi) ** q.Pi)
                          ++ ((((q.del_pipi ++ (Third ** q.tau_pipi)) ++ q.lam_Pipi) ++ q.cs2) ** q.L3))
                         ++ aL1))
        num == ((((beta ** beta) ** (q.del_pipi -- (Frac(1, 12) ** q.tau_pipi)))
                 ** ((q.lam_Pipi ++ q.cs2) -- (Frac(1, 12) ** q.tau_pipi)))
                ** (q.L3 ++ aL1)) ** (q.L3 ++ aL1)
        den == (One -- q.s_relax)
               ++ (beta ** ((((One -- (Half ** q.lam_piPi)) ** q.Pi) -- aL1)
                            -- ((Half ** q.tau_pipi) ** q.L3)))
    IN  (t0 -- t1) -- (num // den)

Suff7(beta, grid_pt) ==
    LET q   == Call("sParts", <<grid_pt>>)
        aL1 == RAbs(q.L1)
        f   == q.s_relax ++ (beta ** (((Half ** q.lam_piPi) ** q.Pi) -- ((Half ** q.tau_pipi) ** aL1)))
    IN  (f ** f)
        -- (((((beta ** beta) ** (q.del_pipi -- (Frac(1, 12) ** q.tau_pipi)))
              ** ((q.lam_Pipi ++ q.cs2) -- (Frac(1, 12) ** q.tau_pipi)))
             ** (q.L3 ++ aL1)) ** (q.L3 ++ aL1))

Suff8(beta, grid_pt) ==
    LET q   == Call("sParts", <<grid_pt>>)
        aL1 == RAbs(q.L1)
        t0  == (((Frac(4, 3) ** q.s_relax) ++ q.b_relax) ++ q.cs2)
               ++ (beta ** (((((Frac(2, 3) ** q.lam_piPi) ++ q.del_PiPi) ++ q.cs2) ** q.Pi)
                            -- ((((q.del_pipi ++ (Third ** q.tau_pipi)) -- q.lam_Pipi) ++ q.cs2) ** aL1)))
        z   == One ++ (beta ** (q.Pi -- aL1))
        t1  == (((((One ++ (beta ** (q.Pi ++ q.L2))) ** (One ++ (beta ** (q.Pi ++ q.L3))))
                  // Num(3)) // z) // z)
               ** ((One ++ (Two ** q.s_relax))
                   ++ (beta ** ((((One ++ q.lam_piPi) ** q.Pi) -- RAbs(q.Pi)) ++ (q.tau_pipi ** q.L3))))
    IN  t0 -- t1

\* Suff5_Hook, Suff7_Hook, Suff8_Hook: the function pointer handed to BinarySearch
SuffHook(k, beta, grid_pt) ==
    CASE k = 5 -> Call("Suff5", <<beta, grid_pt>>)
      [] k = 7 -> Call("Suff7", <<beta, grid_pt>>)
      [] k = 8 -> Call("Suff8", <<beta, grid_pt>>)

BinaryTolerance == Frac(1, 10000)

\* one pass of "while (right - left > 1e-4) { ... }" on the locals st: the test
\* of the loop, the two early returns, the halving; evals counts the calls of func
SearchStep(st, k, grid_pt) ==
    IF RGt(st.right -- st.left, BinaryTolerance)
    THEN IF RLt(st.right, st.left)
         THEN [st EXCEPT !.returned = TRUE, !.status = FALSE]
         ELSE IF RGt(Call("SuffHook", <<k, st.right, grid_pt>>) ** Call("SuffHook", <<k, st.left, grid_pt>>),
                     PosZero)
              THEN [st EXCEPT !.returned = TRUE, !.status = FALSE, !.evals = @ + 2]
         ELSE LET mid == (st.left ++ st.right) // Two
              IN  IF RLt(Call("SuffHook", <<k, mid, grid_pt>>), PosZero)
                  THEN [st EXCEPT !.right = mid, !.result = mid, !.evals = @ + 3]
                  ELSE [st EXCEPT !.left = mid, !.result = mid, !.evals = @ + 3]
    ELSE [st EXCEPT !.returned = TRUE, !.status = TRUE]

\* the passes of the loop until one of its returns
RECURSIVE SearchLoop(_, _, _)
SearchLoop(st, k, grid_pt) ==
    IF st.returned THEN st ELSE SearchLoop(SearchStep(st, k, grid_pt), k, grid_pt)

\* the whole function; result is the caller's variable, passed by reference
BinarySearch(left, right, k, result, grid_pt) ==
    LET st == SearchLoop([left |-> left, right |-> right, result |-> result,
                          returned |-> FALSE, status |-> TRUE, evals |-> 0], k, grid_pt)
    IN  [status |-> st.status, result |-> st.result, evals |-> st.evals]

-----------------------------------------------------------------------------
(* sCausalityConstraints *)

\* std::vector<double> sCondition {s1, s2, s6}
sCondition(grid_pt) ==
    LET q == Call("sParts", <<grid_pt>>)
    IN  Arr([i \in 0..2 |->
          CASE i = 0 -> ((((One -- q.s_relax) -- q.L1) ++ ((One -- (Half ** q.lam_piPi)) ** q.Pi))
                         -- ((Half ** q.tau_pipi) ** q.L3))
            [] i = 1 -> (((Two ** q.s_relax) ++ (q.lam_piPi ** q.Pi)) -- (q.tau_pipi ** RAbs(q.L1)))
            [] i = 2 -> (((((Third ** q.s_relax) ++ q.b_relax) ++ q.cs2)
                          ++ ((((Frac(1, 6) ** q.lam_piPi) ++ q.del_PiPi) ++ q.cs2) ** q.Pi))
                         ++ (((((Frac(1, 6) ** q.tau_pipi) -- q.del_pipi) ++ q.lam_Pipi) -- q.cs2)
                             ** RAbs(q.L1)))])

\* the switch: the candidate damping factor of a violated condition i
sCandidate(grid_pt, i) ==
    LET q == Call("sParts", <<grid_pt>>)
    IN  CASE i = 0 -> (q.s_relax -- One)
                      // (((RNeg(RAbs(q.L1))) ++ ((One -- (Half ** q.lam_piPi)) ** q.Pi))
                          -- ((Half ** q.tau_pipi) ** q.L3))
          [] i = 1 -> (RNeg(Two) ** q.s_relax)
                      // ((q.lam_piPi ** q.Pi) -- (q.tau_pipi ** RAbs(q.L1)))
          [] i = 2 -> RNeg(((Third ** q.s_relax) ++ q.b_relax) ++ q.cs2)
                      // (((((Frac(1, 6) ** q.lam_piPi) ++ q.del_PiPi) ++ q.cs2) ** q.Pi)
                          ++ (((((Frac(1, 6) ** q.tau_pipi) -- q.del_pipi) ++ q.lam_Pipi) -- q.cs2)
                              ** RAbs(q.L1)))

sBeta(grid_pt, i) ==
    IF RLt(Call("sCondition", <<grid_pt>>)[i], PosZero) THEN Call("sCandidate", <<grid_pt, i>>) ELSE One

sLoop(grid_pt, order, minBeta) ==
    IF order = <<>> THEN minBeta
    ELSE Call("sLoop", <<grid_pt, Tail(order), Call("FoldMin", <<minBeta, Call("sBeta", <<grid_pt, Head(order)>>)>>)>>)

\* minBeta after the closed-form stage
sClosedBeta(grid_pt) == Call("sLoop", <<grid_pt, <<0, 1, 2>>, One>>)

\* the block with the fallback of Suff5 taken on every failure
sStage_zeroOnFailure(k, minBeta, grid_pt) ==
    IF RLt(Call("SuffHook", <<k, minBeta, grid_pt>>), PosZero)
    THEN LET b == Call("BinarySearch", <<PosZero, minBeta, k, PosZero, grid_pt>>)
         IN  IF b.status
             THEN [minBeta |-> b.result, ran |-> TRUE, status |-> TRUE, message |-> FALSE]
             ELSE [minBeta |-> PosZero, ran |-> TRUE, status |-> FALSE, message |-> FALSE]
    ELSE [minBeta |-> minBeta, ran |-> FALSE, status |-> TRUE, message |-> FALSE]

\* one "if (SuffK(minBeta, grid_pt) < 0) { ... }" block: the new minBeta, whether
\* the search ran, its status, and whether the failure message was printed
sStage(k, minBeta, grid_pt) ==
    IF RLt(Call("SuffHook", <<k, minBeta, grid_pt>>), PosZero)
    THEN LET b == Call("BinarySearch", <<PosZero, minBeta, k, PosZero, grid_pt>>)
         IN  IF b.status
             THEN [minBeta |-> b.result, ran |-> TRUE, status |-> TRUE, message |-> FALSE]
             ELSE IF k = 5 /\ RLt(get_cs2(grid_pt.epsilon, grid_pt.rhob), Frac(15, 100))
                  THEN [minBeta |-> PosZero, ran |-> TRUE, status |-> FALSE, message |-> FALSE]
                  ELSE [minBeta |-> minBeta, ran |-> TRUE, status |-> FALSE, message |-> TRUE]
    ELSE [minBeta |-> minBeta, ran |-> FALSE, status |-> TRUE, message |-> FALSE]

\* the whole function: the cell after it, the factor, the lines appended
sCausalityConstraints(grid_pt, tauArg) ==
    LET b0 == Call("sClosedBeta", <<grid_pt>>)
        s5 == Call("sStage", <<5, b0, grid_pt>>)
        s7 == Call("sStage", <<7, s5.minBeta, grid_pt>>)
        s8 == Call("sStage", <<8, s7.minBeta, grid_pt>>)
        minBeta == s8.minBeta
    IN  [grid_pt |-> Call("Rescale", <<grid_pt, minBeta>>),
         factor  |-> minBeta,
         lines   |-> LogRecord(grid_pt.epsilon, minBeta, tauArg),
         stages  |-> <<s5, s7, s8>>]

-----------------------------------------------------------------------------
(* QuestRevert and QuestRevert_qmu *)

\* 10*strength*(1/(exp(-(e - eps_scale)/xi) + 1) - 1/(exp(eps_scale/xi) + 1))
QuestFactor(e_local) ==
    LET eps_scale == Frac(1, 10)
        xi        == Frac(5, 100)
    IN  (Num(10) ** DATA.quest_revert_strength)
        ** ((One // (Call("RExp", <<RNeg(e_local -- eps_scale) // xi>>) ++ One))
            -- (One // (Call("RExp", <<eps_scale // xi>>) ++ One)))

Sq(x) == x ** x

\* rho_shear and rho_bulk as the function computes them from a cell
QuestRatios(grid_pt) ==
    LET e_local == grid_pt.epsilon
        rhob    == grid_pt.rhob
        factor  == Call("QuestFactor", <<e_local>>)
        factor_bulk == factor
        W       == grid_pt.Wmunu
        pisize  == ((((Sq(W[0]) ++ Sq(W[4])) ++ Sq(W[7])) ++ Sq(W[9]))
                    -- (Two ** ((Sq(W[1]) ++ Sq(W[2])) ++ Sq(W[3]))))
                   ++ (Two ** ((Sq(W[5]) ++ Sq(W[6])) ++ Sq(W[8])))
        pi_local == grid_pt.pi_b
        bulksize == (Num(3) ** pi_local) ** pi_local
        p_local  == get_pressure(e_local, rhob)
        eq_size  == (e_local ** e_local) ++ ((Num(3) ** p_local) ** p_local)
    IN  [rho_shear |-> Call("RSqrt", <<pisize // eq_size>>) // factor,
         rho_bulk  |-> Call("RSqrt", <<bulksize // eq_size>>) // factor_bulk]

\* QuestRevert with the shear multiplied by the ceiling itself, not by ceiling/ratio
QuestRevert_ceiling(grid_pt) ==
    LET W   == grid_pt.Wmunu
        rho == Call("QuestRatios", <<grid_pt>>)
        cap == Frac(1, 10)
    IN  [grid_pt EXCEPT
            !.Wmunu = IF IsNaN(rho.rho_shear)
                      THEN Arr([mu \in WIdx |-> IF mu < 10 THEN PosZero ELSE W[mu]])
                      ELSE IF RGt(rho.rho_shear, cap)
                           THEN Arr([mu \in WIdx |-> IF mu < 10 THEN cap ** W[mu] ELSE W[mu]])
                           ELSE W,
            !.pi_b = IF RGt(rho.rho_bulk, cap)
                     THEN (cap // rho.rho_bulk) ** grid_pt.pi_b
                     ELSE grid_pt.pi_b]

QuestRevert(grid_pt) ==
    LET W         == grid_pt.Wmunu
        rho       == Call("QuestRatios", <<grid_pt>>)
        rho_shear == rho.rho_shear
        rho_bulk  == rho.rho_bulk
        rho_shear_max == Frac(1, 10)
        rho_bulk_max  == Frac(1, 10)
        W1 == IF IsNaN(rho_shear)
              THEN Arr([mu \in WIdx |-> IF mu < 10 THEN PosZero ELSE W[mu]])
              ELSE IF RGt(rho_shear, rho_shear_max)
                   THEN Arr([mu \in WIdx |-> IF mu < 10 THEN (rho_shear_max // rho_shear) ** W[mu]
                                         ELSE W[mu]])
                   ELSE W
        pib1 == IF RGt(rho_bulk, rho_bulk_max)
                THEN (rho_bulk_max // rho_bulk) ** grid_pt.pi_b
                ELSE grid_pt.pi_b
    IN  [grid_pt EXCEPT !.Wmunu = W1, !.pi_b = pib1]

QuestRevert_qmu(grid_pt) ==
    LET factor == Call("QuestFactor", <<grid_pt.epsilon>>)
        q_mu_local == Arr([i \in 0..3 |-> grid_pt.Wmunu[10 + i]])
        gfac(i) == IF i = 0 THEN RNeg(One) ELSE One
        q_size == (((PosZero ++ ((gfac(0) ** q_mu_local[0]) ** q_mu_local[0]))
                    ++ ((gfac(1) ** q_mu_local[1]) ** q_mu_local[1]))
                   ++ ((gfac(2) ** q_mu_local[2]) ** q_mu_local[2]))
                  ++ ((gfac(3) ** q_mu_local[3]) ** q_mu_local[3])
        W0 == IF RLt(q_size, PosZero)
              THEN Arr([mu \in WIdx |-> IF mu >= 10 THEN PosZero ELSE grid_pt.Wmunu[mu]])
              ELSE grid_pt.Wmunu
        rhob_local == grid_pt.rhob
        rho_q == Call("RSqrt", <<q_size // (rhob_local ** rhob_local)>>) // factor
        rho_q_max == Frac(1, 10)
        W1 == IF RGt(rho_q, rho_q_max)
              THEN Arr([mu \in WIdx |-> IF mu >= 10 THEN (rho_q_max // rho_q) ** q_mu_local[mu - 10]
                                    ELSE W0[mu]])
              ELSE W0
    IN  [grid_pt EXCEPT !.Wmunu = W1]

-----------------------------------------------------------------------------
(* solveEigenvaluesWmunu *)

\* Util::map_2d_idx_to_1d: the storage order 00 01 02 03 11 12 13 22 23 33,
\* then the diffusion current q^0..q^3 as row 4
map_2d_idx_to_1d(a, b) ==
    LET lo == IF a <= b THEN a ELSE b
        hi == IF a <= b THEN b ELSE a
    IN  IF hi = 4 THEN 10 + lo
        ELSE CASE lo = 0 -> hi
               [] lo = 1 -> 3 + hi
               [] lo = 2 -> 5 + hi
               [] lo = 3 -> 9

\* the matrix A = W^{mu nu} g_{nu lambda} built entry by entry
EigenMatrix(grid_pt) ==
    LET W == grid_pt.Wmunu
    IN  Arr([i \in 0..3 |-> Arr([j \in 0..3 |->
            IF j = 0 THEN RNeg(W[map_2d_idx_to_1d(i, 0)])
            ELSE W[map_2d_idx_to_1d(i, j)]])])

Det2(A, r, c) ==
    (A[r[1]][c[1]] ** A[r[2]][c[2]]) -- (A[r[1]][c[2]] ** A[r[2]][c[1]])

Det3(A, r, c) ==
    ((A[r[1]][c[1]] ** Call("Det2", <<A, <<r[2], r[3]>>, <<c[2], c[3]>>>>))
     -- (A[r[1]][c[2]] ** Call("Det2", <<A, <<r[2], r[3]>>, <<c[1], c[3]>>>>)))
    ++ (A[r[1]][c[3]] ** Call("Det2", <<A, <<r[2], r[3]>>, <<c[1], c[2]>>>>))

Det4(A) ==
    (((A[0][0] ** Call("Det3", <<A, <<1, 2, 3>>, <<1, 2, 3>>>>))
      -- (A[0][1] ** Call("Det3", <<A, <<1, 2, 3>>, <<0, 2, 3>>>>)))
     ++ (A[0][2] ** Call("Det3", <<A, <<1, 2, 3>>, <<0, 1, 3>>>>)))
    -- (A[0][3] ** Call("Det3", <<A, <<1, 2, 3>>, <<0, 1, 2>>>>))

\* det(x - A) = x^4 - c3 x^3 + c2 x^2 - c1 x + c0
CharPoly(A) ==
    [c3 |-> ((A[0][0] ++ A[1][1]) ++ A[2][2]) ++ A[3][3],
     c2 |-> (((((Call("Det2", <<A, <<0, 1>>, <<0, 1>>>>) ++ Call("Det2", <<A, <<0, 2>>, <<0, 2>>>>))
                ++ Call("Det2", <<A, <<0, 3>>, <<0, 3>>>>)) ++ Call("Det2", <<A, <<1, 2>>, <<1, 2>>>>))
              ++ Call("Det2", <<A, <<1, 3>>, <<1, 3>>>>)) ++ Call("Det2", <<A, <<2, 3>>, <<2, 3>>>>)),
     c1 |-> ((Call("Det3", <<A, <<0, 1, 2>>, <<0, 1, 2>>>>) ++ Call("Det3", <<A, <<0, 1, 3>>, <<0, 1, 3>>>>))
             ++ Call("Det3", <<A, <<0, 2, 3>>, <<0, 2, 3>>>>)) ++ Call("Det3", <<A, <<1, 2, 3>>, <<1, 2, 3>>>>),
     c0 |-> Call("Det4", <<A>>)]

\* the k-th derivative of the characteristic polynomial at x, up to a factor k!
CharPolyD(cp, k, x) ==
    CASE k = 0 -> ((((((x -- cp.c3) ** x) ++ cp.c2) ** x) -- cp.c1) ** x) ++ cp.c0
      [] k = 1 -> (((((Num(4) ** x) -- (Num(3) ** cp.c3)) ** x) ++ (Two ** cp.c2)) ** x) -- cp.c1
      [] k = 2 -> ((((Num(6) ** x) -- (Num(3) ** cp.c3)) ** x) ++ cp.c2)
      [] k = 3 -> (Num(4) ** x) -- cp.c3

\* algebraic multiplicity of x as an eigenvalue (0 when it is none)
Multiplicity(cp, x) ==
    IF ~IsZero(Call("CharPolyD", <<cp, 0, x>>)) THEN 0
    ELSE IF ~IsZero(Call("CharPolyD", <<cp, 1, x>>)) THEN 1
    ELSE IF ~IsZero(Call("CharPolyD", <<cp, 2, x>>)) THEN 2
    ELSE IF ~IsZero(Call("CharPolyD", <<cp, 3, x>>)) THEN 3
    ELSE 4

\* +0 and -0 are one number
Canon(x) == IF IsZero(x) THEN PosZero ELSE x

\* where a rational eigenvalue of A can lie
EigenCandidates(A) ==
    {PosZero}
    \cup {Call("Canon", <<A[i][i]>>) : i \in 0..3}
    \cup {Call("Canon", <<A[0][0] ++ A[k][k]>>) : k \in 1..3}
    \cup {Call("Canon", <<A[i][j]>>) : i \in 1..3, j \in 1..3}
    \cup {Call("Canon", <<RNeg(A[i][j])>>) : i \in 1..3, j \in 1..3}

SumMult(cp, S) ==
    IF S = {} THEN 0
    ELSE LET x == CHOOSE y \in S : TRUE
         IN  Call("Multiplicity", <<cp, x>>) + Call("SumMult", <<cp, S \ {x}>>)

Spectrum(cp, S) ==
    IF S = {} THEN <<>>
    ELSE LET x == CHOOSE y \in S : TRUE
         IN  Arr([k \in 1..Call("Multiplicity", <<cp, x>>) |-> x]) \o Call("Spectrum", <<cp, S \ {x}>>)

\* lines 353-364: min and max of the real parts, in the solver's order
EigenLoop(evs, min, max) ==
    IF evs = <<>> THEN [min |-> min, max |-> max]
    ELSE LET temp == Head(evs)
         IN  IF RGt(temp, max) THEN Call("EigenLoop", <<Tail(evs), min, temp>>)
             ELSE IF RLt(temp, min) THEN Call("EigenLoop", <<Tail(evs), temp, max>>)
             ELSE Call("EigenLoop", <<Tail(evs), min, max>>)

\* the extreme eigenvalue pair reported for a matrix whose spectrum is not
\* rational (min <= 0 <= max: u is always a null vector)
EigenGuess ==
    {[min |-> RNeg(One), max |-> One]}

\* what es.compute(A, false) followed by the loop can leave in (min, max)
EigenOutcomes(grid_pt) ==
    LET A  == Call("EigenMatrix", <<grid_pt>>)
        W  == grid_pt.Wmunu
    IN  IF \E mu \in 0..9 : ~IsFinite(W[mu])
        THEN {[min |-> NaN, max |-> NaN]}
        ELSE IF \A i \in 0..3 : \A j \in 0..3 : i # j => IsZero(A[i][j])
        THEN {Call("EigenLoop", <<<<A[1][1], A[2][2], A[3][3]>>, A[0][0], A[0][0]>>)}
        ELSE LET cp == Call("CharPoly", <<A>>)
                 R  == {x \in Call("EigenCandidates", <<A>>) : Call("Multiplicity", <<cp, x>>) > 0}
             IN  IF Call("SumMult", <<cp, R>>) = 4
                 THEN LET evs == Call("Spectrum", <<cp, R>>)
                      IN  {Call("EigenLoop", <<Tail(evs), Head(evs), Head(evs)>>)}
                 ELSE EigenGuess

solveEigenvaluesWmunu(grid_pt, ev) ==
    [grid_pt EXCEPT !.Lambdas =
        Arr([i \in 0..2 |-> CASE i = 0 -> ev.min
                          [] i = 1 -> RNeg(ev.min) -- ev.max
                          [] i = 2 -> ev.max])]

-----------------------------------------------------------------------------
(* FirstRKStepW *)

\* the update with the numerator the relaxation formula alone would give
EvolveStep_noCurrent(Qc, u0c, Qprev, u0prev, temps, w_rhs, u0f, rk) ==
    LET t0 == ((One -- Num(rk)) ** (Qc ** u0c)) ++ (Num(rk) ** (Qprev ** u0prev))
        t1 == t0 ++ (temps ** DATA.delta_tau)
        t2 == t1 ++ w_rhs
        t4 == t2 ** (One // (One ++ Num(rk)))
    IN  t4 // u0f

\* the update of one evolved quantity Q: lines 212-223, 236-244, 258-269
EvolveStep(Qc, u0c, Qprev, u0prev, temps, w_rhs, u0f, rk) ==
    LET t0 == ((One -- Num(rk)) ** (Qc ** u0c)) ++ (Num(rk) ** (Qprev ** u0prev))
        t1 == t0 ++ (temps ** DATA.delta_tau)
        t2 == t1 ++ w_rhs
        t3 == t2 ++ (Num(rk) ** (Qc ** u0c))
        t4 == t3 ** (One // (One ++ Num(rk)))
    IN  t4 // u0f

\* the three blocks without their else branches: a disabled quantity keeps the
\* value the future cell held
EvolveDissipative_skip(grid_pt_prev, grid_pt_c, grid_pt_f, rk, en) ==
    LET shear(idx) ==
            IF DATA.turn_on_shear = 1
            THEN Call("EvolveStep", <<grid_pt_c.Wmunu[idx], grid_pt_c.u[0],
                            grid_pt_prev.Wmunu[idx], grid_pt_prev.u[0],
                            en.uWSource[idx], en.uWRHS[idx], grid_pt_f.u[0], rk>>)
            ELSE grid_pt_f.Wmunu[idx]
        bulk ==
            IF DATA.turn_on_bulk = 1
            THEN Call("EvolveStep", <<grid_pt_c.pi_b, grid_pt_c.u[0],
                            grid_pt_prev.pi_b, grid_pt_prev.u[0],
                            en.uPiSource, en.uPRHS, grid_pt_f.u[0], rk>>)
            ELSE grid_pt_f.pi_b
        diff(idx) ==
            IF DATA.turn_on_diff = 1
            THEN Call("EvolveStep", <<grid_pt_c.Wmunu[idx], grid_pt_c.u[0],
                            grid_pt_prev.Wmunu[idx], grid_pt_prev.u[0],
                            en.uqSource[idx], en.uqRHS[idx], grid_pt_f.u[0], rk>>)
            ELSE grid_pt_f.Wmunu[idx]
    IN  [grid_pt_f EXCEPT
           !.Wmunu = Arr([mu \in WIdx |->
                        IF mu \in 4..8 THEN shear(mu)
                        ELSE IF mu \in 11..13 THEN diff(mu)
                        ELSE grid_pt_f.Wmunu[mu]]),
           !.pi_b = bulk]

\* the three "if (DATA.turn_on_... == 1) ... else ..." blocks; en holds what
\* diss_helper returns for this cell in this sub-step
EvolveDissipative(grid_pt_prev, grid_pt_c, grid_pt_f, rk, en) ==
    LET shear(idx) ==
            IF DATA.turn_on_shear = 1
            THEN Call("EvolveStep", <<grid_pt_c.Wmunu[idx], grid_pt_c.u[0],
                            grid_pt_prev.Wmunu[idx], grid_pt_prev.u[0],
                            en.uWSource[idx], en.uWRHS[idx], grid_pt_f.u[0], rk>>)
            ELSE PosZero
        bulk ==
            IF DATA.turn_on_bulk = 1
            THEN Call("EvolveStep", <<grid_pt_c.pi_b, grid_pt_c.u[0],
                            grid_pt_prev.pi_b, grid_pt_prev.u[0],
                            en.uPiSource, en.uPRHS, grid_pt_f.u[0], rk>>)
            ELSE PosZero
        diff(idx) ==
            IF DATA.turn_on_diff = 1
            THEN Call("EvolveStep", <<grid_pt_c.Wmunu[idx], grid_pt_c.u[0],
                            grid_pt_prev.Wmunu[idx], grid_pt_prev.u[0],
                            en.uqSource[idx], en.uqRHS[idx], grid_pt_f.u[0], rk>>)
            ELSE PosZero
    IN  [grid_pt_f EXCEPT
           !.Wmunu = Arr([mu \in WIdx |->
                        IF mu \in 4..8 THEN shear(mu)
                        ELSE IF mu \in 11..13 THEN diff(mu)
                        ELSE IF mu = 10 /\ DATA.turn_on_diff # 1 THEN PosZero
                        ELSE grid_pt_f.Wmunu[mu]]),
           !.pi_b = bulk]

\* Wmunu[3][3] made from the trace of the spatial block alone
RemakeW33_restFrame(grid_pt_f) ==
    [grid_pt_f EXCEPT !.Wmunu[9] = RNeg(grid_pt_f.Wmunu[4] ++ grid_pt_f.Wmunu[7])]

\* re-make Wmunu[3][3] so that Wmunu is traceless
RemakeW33(grid_pt_f) ==
    LET u == grid_pt_f.u
        W == grid_pt_f.Wmunu
        w33 == (((Two ** ((((u[1] ** u[2]) ** W[5]) ++ ((u[1] ** u[3]) ** W[6]))
                          ++ ((u[2] ** u[3]) ** W[8])))
                 -- (((u[0] ** u[0]) -- (u[1] ** u[1])) ** W[4]))
                -- (((u[0] ** u[0]) -- (u[2] ** u[2])) ** W[7]))
               // ((u[0] ** u[0]) -- (u[3] ** u[3]))
    IN  [grid_pt_f EXCEPT !.Wmunu[9] = w33]

\* make Wmunu[i][0] using the transversality, mu = 1, 2, 3 in turn
RemakeW0i(grid_pt_f) ==
    LET u == grid_pt_f.u
        W == grid_pt_f.Wmunu
        row(mu) == (((PosZero ++ (W[map_2d_idx_to_1d(mu, 1)] ** u[1]))
                     ++ (W[map_2d_idx_to_1d(mu, 2)] ** u[2]))
                    ++ (W[map_2d_idx_to_1d(mu, 3)] ** u[3])) // u[0]
    IN  [grid_pt_f EXCEPT !.Wmunu = Arr([mu \in WIdx |->
                                        IF mu \in 1..3 THEN row(mu) ELSE W[mu]])]

\* make Wmunu[0][0]
RemakeW00(grid_pt_f) ==
    LET u == grid_pt_f.u
        W == grid_pt_f.Wmunu
        w00 == (((PosZero ++ (W[1] ** u[1])) ++ (W[2] ** u[2])) ++ (W[3] ** u[3])) // u[0]
    IN  [grid_pt_f EXCEPT !.Wmunu[0] = w00]

\* make qmu[0] using transversality
RemakeQ0(grid_pt_f) ==
    LET u == grid_pt_f.u
        W == grid_pt_f.Wmunu
        tempf == ((PosZero ++ (W[map_2d_idx_to_1d(4, 1)] ** u[1]))
                  ++ (W[map_2d_idx_to_1d(4, 2)] ** u[2]))
                 ++ (W[map_2d_idx_to_1d(4, 3)] ** u[3])
    IN  [grid_pt_f EXCEPT !.Wmunu[10] = (Num(DATA.turn_on_diff) ** tempf) // u[0]]

\* the cell handed to solveEigenvaluesWmunu
BeforeEigen(grid_pt_prev, grid_pt_c, grid_pt_f, rk, en) ==
    Call("RemakeW00", <<Call("RemakeW0i", <<Call("RemakeW33", <<Call("EvolveDissipative", <<grid_pt_prev, grid_pt_c, grid_pt_f, rk, en>>)>>)>>)>>)

NoLines == [necessary |-> <<>>, sufficient |-> <<>>]

\* Regularize with the causality method run before QuestRevert
Regularize_causalityFirst(grid_pt, tauArg) ==
    IF DATA.Initial_profile # 0 /\ DATA.Initial_profile # 1
    THEN LET n  == Call("nCausalityConstraints", <<grid_pt, tauArg>>)
             sc == Call("sCausalityConstraints", <<grid_pt, tauArg>>)
             g1 == IF DATA.causality_method = 1 THEN n.grid_pt
                   ELSE IF DATA.causality_method = 2 THEN sc.grid_pt
                   ELSE grid_pt
             g2 == Call("QuestRevert", <<g1>>)
             g3 == IF DATA.turn_on_diff = 1 THEN Call("QuestRevert_qmu", <<g2>>) ELSE g2
         IN  [grid_pt |-> g3,
              lines |-> [necessary  |-> IF DATA.causality_method = 1 THEN n.lines ELSE <<>>,
                         sufficient |-> IF DATA.causality_method = 2 THEN sc.lines ELSE <<>>],
              entered |-> grid_pt]
    ELSE [grid_pt |-> grid_pt, lines |-> NoLines, entered |-> grid_pt]

\* lines 315-325: QuestRevert, then the selected causality method, then
\* QuestRevert_qmu; the cell, the lines appended to the two logs, and the cell
\* on entry
Regularize(grid_pt, tauArg) ==
    IF DATA.Initial_profile # 0 /\ DATA.Initial_profile # 1
    THEN LET g1 == Call("QuestRevert", <<grid_pt>>)
             n  == Call("nCausalityConstraints", <<g1, tauArg>>)
             sc == Call("sCausalityConstraints", <<g1, tauArg>>)
             g2 == IF DATA.causality_method = 1 THEN n.grid_pt
                   ELSE IF DATA.causality_method = 2 THEN sc.grid_pt
                   ELSE g1
             g3 == IF DATA.turn_on_diff = 1 THEN Call("QuestRevert_qmu", <<g2>>) ELSE g2
         IN  [grid_pt |-> g3,
              lines |-> [necessary  |-> IF DATA.causality_method = 1 THEN n.lines ELSE <<>>,
                         sufficient |-> IF DATA.causality_method = 2 THEN sc.lines ELSE <<>>],
              entered |-> grid_pt]
    ELSE [grid_pt |-> grid_pt, lines |-> NoLines, entered |-> grid_pt]

\* the whole function for one cell, given the extreme eigenvalues ev the solver reports
FirstRKStepW(tauArg, grid_pt_prev, grid_pt_c, grid_pt_f, rk, en, ev) ==
    Call("Regularize", <<Call("RemakeQ0", <<Call("solveEigenvaluesWmunu", <<
                   Call("BeforeEigen", <<grid_pt_prev, grid_pt_c, grid_pt_f, rk, en>>), ev>>)>>),
               tauArg>>)

-----------------------------------------------------------------------------
(* get_TJb, MaxSpeed and the helpers the flux computation calls *)

\* T^{mu nu} and J^nu (mu = 4) of a grid cell
get_TJb(grid_p, mu, nu) ==
    LET rhob == grid_p.rhob
        u_nu == grid_p.u[nu]
        e    == grid_p.epsilon
        gfac == IF mu = nu THEN (IF mu = 0 THEN RNeg(One) ELSE One) ELSE PosZero
        u_mu == IF mu = nu THEN u_nu ELSE grid_p.u[mu]
        pressure == get_pressure(e, rhob)
    IN  IF mu = 4 THEN rhob ** u_nu
        ELSE (((e ++ pressure) ** u_mu) ** u_nu) ++ (pressure ** gfac)

\* the overload taking a reconstructed cell (field e instead of epsilon)
get_TJb_Reconst(grid_p, rk, mu, nu) ==
    LET rhob == grid_p.rhob
        u_nu == grid_p.u[nu]
        e    == grid_p.e
        gfac == IF mu = nu THEN (IF mu = 0 THEN RNeg(One) ELSE One) ELSE PosZero
        u_mu == IF mu = nu THEN u_nu ELSE grid_p.u[mu]
        pressure == get_pressure(e, rhob)
    IN  IF mu = 4 THEN rhob ** u_nu
        ELSE (((e ++ pressure) ** u_mu) ** u_nu) ++ (pressure ** gfac)

\* Util::small_eps, the floor under a denominator
small_eps == Frac(1, 1000000)

\* the checks on f: what the caller gets back, or that the process ended
MaxSpeedCheck(f, num, den, ux, utau, g) ==
    IF RLt(f, PosZero)
    THEN [exited |-> TRUE, f |-> f, value |-> f, raw |-> f, num |-> num]
    ELSE IF RLt(f, ux // utau)
    THEN IF RNe(num, PosZero)
         THEN IF RLt(RAbs(f -- (ux // utau)), Frac(1, 10000))
              THEN [exited |-> FALSE, f |-> (ux // utau), value |-> ((ux // utau) ** g),
                    raw |-> f, num |-> num]
              ELSE [exited |-> TRUE, f |-> f, value |-> f, raw |-> f, num |-> num]
         ELSE [exited |-> FALSE, f |-> f, value |-> (f ** g), raw |-> f, num |-> num]
    ELSE IF RGt(f, One)
    THEN [exited |-> TRUE, f |-> One, value |-> One, raw |-> f, num |-> num]
    ELSE [exited |-> FALSE, f |-> f, value |-> (f ** g), raw |-> f, num |-> num]

\* the maximum signal propagation speed in direction direc
MaxSpeed(tauArg, direc, grid_p) ==
    LET g       == IF direc = 3 THEN One // tauArg ELSE One
        utau    == grid_p.u[0]
        utau2   == utau ** utau
        ux      == RAbs(grid_p.u[direc])
        ut2mux2 == utau2 -- (ux ** ux)
        eps     == grid_p.e
        rhob    == grid_p.rhob
        vs2     == get_cs2(eps, rhob)
        num_temp_sqrt == (ut2mux2 -- ((ut2mux2 -- One) ** vs2)) ** vs2
        dpde    == get_dpde(eps, rhob)
        p       == get_pressure(eps, rhob)
        h       == p ++ eps
        den     == (utau2 ** (One -- vs2)) ++ vs2
    IN  IF RGe(num_temp_sqrt, PosZero)
        THEN LET num == ((utau ** ux) ** (One -- vs2)) ++ Call("RSqrt", <<num_temp_sqrt>>)
             IN  Call("MaxSpeedCheck", <<num // RMax(den, small_eps), num, den, ux, utau, g>>)
        ELSE IF RLt(dpde, Frac(1, 1000))
        THEN LET num == Call("RSqrt", <<RNeg(((h ** dpde) ** h)
                                   ** ((dpde ** (RNeg(One) ++ ut2mux2)) -- ut2mux2))>>)
                        -- (((h ** (RNeg(One) ++ dpde)) ** utau) ** ux)
             IN  Call("MaxSpeedCheck", <<num // RMax(den, small_eps), num, den, ux, utau, g>>)
        ELSE [exited |-> TRUE, f |-> NaN, value |-> NaN, raw |-> NaN, num |-> NaN]

-----------------------------------------------------------------------------
(* Minmod, Reconst and the neighbour loop *)

\* Minmod::minmod_dx: the smallest of three slopes, zero if their signs differ
minmod_dx(up1, u, um1) ==
    LET diffup   == (up1 -- u) ** DATA.minmod_theta
        diffdown == (u -- um1) ** DATA.minmod_theta
        diffmid  == (up1 -- um1) ** Half
        mini(a, b) == IF RLt(a, b) THEN a ELSE b
        maxi(a, b) == IF RGt(a, b) THEN a ELSE b
    IN  IF RGt(diffup, PosZero) /\ RGt(diffdown, PosZero) /\ RGt(diffmid, PosZero)
        THEN mini(diffup, mini(diffdown, diffmid))
        ELSE IF RLt(diffup, PosZero) /\ RLt(diffdown, PosZero) /\ RLt(diffmid, PosZero)
        THEN maxi(diffup, maxi(diffdown, diffmid))
        ELSE PosZero

Vec4(a, b, c, d) == Arr([i \in 0..3 |-> CASE i = 0 -> a [] i = 1 -> b [] i = 2 -> c [] i = 3 -> d])

\* the velocities the inversion can land on besides its guess
VelocityCandidates ==
    <<Vec4(One, PosZero, PosZero, PosZero),
      Vec4(Frac(5, 4), Frac(3, 4), PosZero, PosZero),
      Vec4(Frac(5, 4), Frac(-3, 4), PosZero, PosZero),
      Vec4(Frac(5, 3), Frac(4, 3), PosZero, PosZero),
      Vec4(Frac(5, 4), PosZero, PosZero, Frac(3, 4)),
      Vec4(Two, One, One, One)>>

\* whether (e, rhob, u) with e = T00/((1 + p/e) u0^2 - p/e) has conserved vector uq
Inverts(uq, u) ==
    LET D == ((One ++ eos.pratio) ** (u[0] ** u[0])) -- eos.pratio
        e == uq[0] // D
        cell == [e |-> e, rhob |-> uq[4] // u[0], u |-> u]
    IN  /\ IsFinite(e) /\ RGe(e, PosZero)
        /\ \A al \in 0..4 : REq(Call("get_TJb_Reconst", <<cell, 0, al, 0>>), uq[al])

\* the first of the velocities tries[k..] that inverts uq, Len(tries) + 1 if none
FirstHit(uq, tries, k) ==
    IF k > Len(tries) THEN k
    ELSE IF Call("Inverts", <<uq, tries[k]>>) THEN k
    ELSE Call("FirstHit", <<uq, tries, k + 1>>)

InvertedCell(uq, u) ==
    LET D == ((One ++ eos.pratio) ** (u[0] ** u[0])) -- eos.pratio
    IN  [e |-> uq[0] // D, rhob |-> uq[4] // u[0], u |-> u]

\* Reconst::ReconstIt_shell: invert tau*T^{tau mu}, tau*J^tau into e, rhob, u,
\* starting from the velocity of the guess cell; a failed inversion either
\* ends the run or falls back on the guess
ReconstIt_shell(tauArg, tauq_vec, grid_pt) ==
    LET uq    == Arr([al \in 0..4 |-> tauq_vec[al] // tauArg])
        tries == <<grid_pt.u>> \o VelocityCandidates
        first == Call("FirstHit", <<uq, tries, 1>>)
    IN  IF first <= Len(tries)
        THEN [exited |-> FALSE, cell |-> Call("InvertedCell", <<uq, tries[first]>>)]
        ELSE [exited |-> reconst_helper.on_failure = "exit",
              cell |-> [e |-> grid_pt.epsilon, rhob |-> grid_pt.rhob, u |-> grid_pt.u]]

\* the grid: NX cells in x, one cell in y and in eta
NX == 2

Cells == 0..(NX - 1)

Clamp(i) == IF i < 0 THEN 0 ELSE IF i > NX - 1 THEN NX - 1 ELSE i

\* Neighbourloop: for each direction the cells c, p1, p2, m1, m2, taken from
\* the grid with indices held inside it
Neighbours(arena, ix, direction) ==
    IF direction = 1
    THEN [c |-> arena[ix], p1 |-> arena[Clamp(ix + 1)], p2 |-> arena[Clamp(ix + 2)],
          m1 |-> arena[Clamp(ix - 1)], m2 |-> arena[Clamp(ix - 2)]]
    ELSE [c |-> arena[ix], p1 |-> arena[ix], p2 |-> arena[ix],
          m1 |-> arena[ix], m2 |-> arena[ix]]

-----------------------------------------------------------------------------
(* MakeDeltaQI *)

RCosh(x) == (Call("RExp", <<x>>) ++ Call("RExp", <<RNeg(x)>>)) // Two

RSinh(x) == (Call("RExp", <<x>>) -- Call("RExp", <<RNeg(x)>>)) // Two

\* the body of the neighbour loop for one direction: the four half-way
\* cells, the wave speeds, and the five Kurganov-Tadmor fluxes on each face
DirectionFlux(tauArg, qi, nb, direction) ==
    LET tau_fac == IF direction = 3 THEN One ELSE tauArg
        gphR == Arr([al \in 0..4 |-> tauArg ** Call("get_TJb", <<nb.p1, al, 0>>)])
        gmhL == Arr([al \in 0..4 |-> tauArg ** Call("get_TJb", <<nb.m1, al, 0>>)])
        gp2  == Arr([al \in 0..4 |-> tauArg ** Call("get_TJb", <<nb.p2, al, 0>>)])
        gm2  == Arr([al \in 0..4 |-> tauArg ** Call("get_TJb", <<nb.m2, al, 0>>)])
        fphL == Arr([al \in 0..4 |-> Half ** Call("minmod_dx", <<gphR[al], qi[al], gmhL[al]>>)])
        fphR == Arr([al \in 0..4 |-> RNeg(Half) ** Call("minmod_dx", <<gp2[al], gphR[al], qi[al]>>)])
        fmhL == Arr([al \in 0..4 |-> Half ** Call("minmod_dx", <<qi[al], gmhL[al], gm2[al]>>)])
        qiphL == Arr([al \in 0..4 |-> qi[al] ++ fphL[al]])
        qiphR == Arr([al \in 0..4 |-> gphR[al] ++ fphR[al]])
        qimhL == Arr([al \in 0..4 |-> gmhL[al] ++ fmhL[al]])
        qimhR == Arr([al \in 0..4 |-> qi[al] ++ RNeg(fphL[al])])
        grid_phL == Call("ReconstIt_shell", <<tauArg, qiphL, nb.c>>)
        grid_phR == Call("ReconstIt_shell", <<tauArg, qiphR, nb.c>>)
        grid_mhL == Call("ReconstIt_shell", <<tauArg, qimhL, nb.c>>)
        grid_mhR == Call("ReconstIt_shell", <<tauArg, qimhR, nb.c>>)
        aiphL == Call("MaxSpeed", <<tauArg, direction, grid_phL.cell>>)
        aiphR == Call("MaxSpeed", <<tauArg, direction, grid_phR.cell>>)
        aimhL == Call("MaxSpeed", <<tauArg, direction, grid_mhL.cell>>)
        aimhR == Call("MaxSpeed", <<tauArg, direction, grid_mhR.cell>>)
        aiph == RMax(aiphL.value, aiphR.value)
        aimh == RMax(aimhL.value, aimhR.value)
        FiphL == Arr([al \in 0..4 |-> Call("get_TJb_Reconst", <<grid_phL.cell, 0, al, direction>>) ** tau_fac])
        FiphR == Arr([al \in 0..4 |-> Call("get_TJb_Reconst", <<grid_phR.cell, 0, al, direction>>) ** tau_fac])
        FimhL == Arr([al \in 0..4 |-> Call("get_TJb_Reconst", <<grid_mhL.cell, 0, al, direction>>) ** tau_fac])
        FimhR == Arr([al \in 0..4 |-> Call("get_TJb_Reconst", <<grid_mhR.cell, 0, al, direction>>) ** tau_fac])
    IN  [exited |-> \/ grid_phL.exited \/ grid_phR.exited \/ grid_mhL.exited \/ grid_mhR.exited
                    \/ aiphL.exited \/ aiphR.exited \/ aimhL.exited \/ aimhR.exited,
         Fiph |-> Arr([al \in 0..4 |->
                     Half ** ((FiphL[al] ++ FiphR[al])
                              -- (aiph ** (qiphR[al] -- qiphL[al])))]),
         Fimh |-> Arr([al \in 0..4 |->
                     Half ** ((FimhL[al] ++ FimhR[al])
                              -- (aimh ** (qimhR[al] -- qimhL[al])))])]

\* qi = tau*T^{tau alpha} of the cell plus the flux differences and the
\* geometric terms; exited when a call inside ended the run
MakeDeltaQI(tauArg, arena, ix) ==
    LET delta(d) == CASE d = 1 -> DATA.delta_x [] d = 2 -> DATA.delta_y [] d = 3 -> DATA.delta_eta
        qi == Arr([al \in 0..4 |-> Call("get_TJb", <<arena[ix], al, 0>>) ** tauArg])
        fx == Arr([d \in 1..3 |-> Call("DirectionFlux", <<tauArg, qi, Call("Neighbours", <<arena, ix, d>>), d>>)])
        DFmmp(d, al) == (fx[d].Fimh[al] -- fx[d].Fiph[al]) // delta(d)
        kept(d, al) == d = 3 /\ (al = 0 \/ al = 3)
        rhs0 == Arr([al \in 0..4 |->
                   ((PosZero ++ (DFmmp(1, al) ** DATA.delta_tau))
                    ++ (DFmmp(2, al) ** DATA.delta_tau))
                   ++ (IF kept(3, al) THEN PosZero ELSE DFmmp(3, al) ** DATA.delta_tau)])
        T_eta_m == fx[3].Fimh
        T_eta_p == fx[3].Fiph
        cosh_deta == IF DATA.boost_invariant THEN PosZero
                     ELSE RCosh(delta(3) // Two) // RMax(delta(3), small_eps)
        sinh_deta == IF DATA.boost_invariant THEN Half
                     ELSE RMax(Half, RSinh(delta(3) // Two) // RMax(delta(3), small_eps))
        geo0 == (((T_eta_m[0] -- T_eta_p[0]) ** cosh_deta)
                 -- ((T_eta_m[3] ++ T_eta_p[3]) ** sinh_deta)) ** DATA.delta_tau
        geo3 == (((T_eta_m[3] -- T_eta_p[3]) ** cosh_deta)
                 -- ((T_eta_m[0] ++ T_eta_p[0]) ** sinh_deta)) ** DATA.delta_tau
        rhs == Arr([al \in 0..4 |-> CASE al = 0 -> rhs0[0] ++ geo0
                                  [] al = 3 -> rhs0[3] ++ geo3
                                  [] OTHER  -> rhs0[al]])
    IN  [exited |-> fx[1].exited \/ fx[2].exited \/ fx[3].exited,
         qi |-> Arr([al \in 0..4 |-> qi[al] ++ rhs[al]])]

-----------------------------------------------------------------------------
(* FirstRKStepT and UpdateTJbRK *)

\* update results after RK evolution to grid_pt
UpdateTJbRK(grid_rk, grid_pt) ==
    [grid_pt EXCEPT !.epsilon = grid_rk.e, !.rhob = grid_rk.rhob, !.u = grid_rk.u]

\* qi_source, and whether the isnan check ended the run
SourceTerms(tau_rk, src) ==
    IF flag_add_hydro_source
    THEN LET s4 == Arr([ii \in 0..3 |-> tau_rk ** src.j_mu[ii]])
         IN  [exited |-> \E ii \in 0..3 : IsNaN(s4[ii]),
              qi_source |-> Arr([al \in 0..4 |->
                  IF al < 4 THEN s4[al]
                  ELSE IF DATA.turn_on_rhob = 1 THEN tau_rk ** src.rhob_source
                  ELSE PosZero])]
    ELSE [exited |-> FALSE, qi_source |-> Arr([al \in 0..4 |-> PosZero])]

\* CombineRK with the previous snapshot added but the sum not halved
CombineRK_notHalved(qi, qi_source, dwmn, grid_pt_prev, tauArg, rk) ==
    Arr([al \in 0..4 |->
        LET q1 == qi[al] -- (dwmn[al] ** DATA.delta_tau)
            q2 == q1 ++ (qi_source[al] ** DATA.delta_tau)
        IN  q2 ++ ((Num(rk) ** Call("get_TJb", <<grid_pt_prev, al, 0>>)) ** tauArg)])

\* the loop over alpha: minus the dissipative divergence, plus the sources,
\* then the Runge-Kutta combination with the previous snapshot
CombineRK(qi, qi_source, dwmn, grid_pt_prev, tauArg, rk) ==
    Arr([al \in 0..4 |->
        LET q1 == qi[al] -- (dwmn[al] ** DATA.delta_tau)
            q2 == q1 ++ (qi_source[al] ** DATA.delta_tau)
            q3 == q2 ++ ((Num(rk) ** Call("get_TJb", <<grid_pt_prev, al, 0>>)) ** tauArg)
        IN  q3 ** (One // (One ++ Num(rk)))])

\* the ideal part for one cell: whether the run ended inside it, the
\* reconstructed cell UpdateTJbRK stores, and the vector the Reconstructor got
FirstRKStepT(tauArg, prev, current, ix, rk) ==
    LET tau_rk   == tauArg ++ (Num(rk) ** DATA.delta_tau)
        dq       == Call("MakeDeltaQI", <<tau_rk, current, ix>>)
        st       == Call("SourceTerms", <<tau_rk, hydro_source_terms_ptr[rk][ix]>>)
        qi       == Call("CombineRK", <<dq.qi, st.qi_source, diss_helper[rk][ix].dwmn,
                              prev[ix], tauArg, rk>>)
        tau_next == tauArg ++ DATA.delta_tau
        rc       == Call("ReconstIt_shell", <<tau_next, qi, current[ix]>>)
    IN  [exited |-> dq.exited \/ st.exited \/ rc.exited,
         grid_rk_t |-> rc.cell,
         qi |-> qi]

-----------------------------------------------------------------------------
(* The configurations and grids the engine is started on *)

ZeroW == Arr([mu \in WIdx |-> PosZero])

ZeroL == Arr([i \in 0..2 |-> PosZero])

\* a default-constructed Cell_small
EmptyCell ==
    [epsilon |-> PosZero, rhob |-> PosZero, u |-> Vec4(One, PosZero, PosZero, PosZero),
     Wmunu |-> ZeroW, pi_b |-> PosZero, Lambdas |-> ZeroL]

Config(visc, shear, bulk, diff, rhobOn, profile, method, boost) ==
    [viscosity_flag |-> visc, turn_on_shear |-> shear, turn_on_bulk |-> bulk,
     turn_on_diff |-> diff, turn_on_rhob |-> rhobOn, Initial_profile |-> profile,
     causality_method |-> method, boost_invariant |-> boost,
     quest_revert_strength |-> Num(10), minmod_theta |-> Frac(9, 5),
     delta_tau |-> Frac(1, 4), delta_x |-> Half, delta_y |-> Half, delta_eta |-> Frac(1, 5)]

Configs ==
    <<Config(0, 0, 0, 0, 0, 0, 0, TRUE),
      Config(0, 0, 0, 0, 1, 2, 0, FALSE),
      Config(1, 1, 1, 1, 1, 2, 1, TRUE),
      Config(1, 1, 1, 1, 1, 2, 2, TRUE),
      Config(1, 1, 0, 0, 0, 2, 0, FALSE),
      Config(1, 1, 1, 1, 1, 1, 1, TRUE),
      Config(1, 0, 0, 0, 0, 2, 1, TRUE),
      Config(1, 1, 1, 0, 1, 2, 1, FALSE)>>

MakeCell(e, rhob, u, w11, w12, w22, pib) ==
    LET c0 == [EmptyCell EXCEPT !.epsilon = e, !.rhob = rhob, !.u = u, !.pi_b = pib,
                                !.Wmunu = Arr([mu \in WIdx |-> CASE mu = 4 -> w11 [] mu = 5 -> w12
                                                             [] mu = 7 -> w22 [] OTHER -> PosZero])]
        c1 == Call("RemakeW00", <<Call("RemakeW0i", <<Call("RemakeW33", <<c0>>)>>)>>)
    IN  Call("solveEigenvaluesWmunu", <<c1, CHOOSE ev \in Call("EigenOutcomes", <<c1>>) : TRUE>>)

Static == Vec4(One, PosZero, PosZero, PosZero)

GridNames == {"static", "moving", "gradient", "viscous", "stressed", "dilute"}

Grid(name) ==
    CASE name = "static"   -> Arr([ix \in Cells |-> Call("MakeCell", <<One, Half, Static, PosZero, PosZero, PosZero, PosZero>>)])
      [] name = "moving"   -> Arr([ix \in Cells |-> Call("MakeCell", <<One, Half, VelocityCandidates[2],
                                                         Frac(1, 10), PosZero, Frac(1, 20), Frac(-1, 20)>>)])
      [] name = "gradient" -> Arr([ix \in Cells |-> Call("MakeCell", <<Num(1 + ix), Half, Static, PosZero, PosZero, PosZero, PosZero>>)])
      [] name = "viscous"  -> Arr([ix \in Cells |-> Call("MakeCell", <<Frac(3 + ix, 4), PosZero, Static,
                                                         Frac(1, 10), PosZero, Frac(1, 20), Frac(1, 20)>>)])
      [] name = "stressed" -> Arr([ix \in Cells |-> Call("MakeCell", <<Num(1 + ix), Half, Static,
                                                         Num(12), PosZero, Num(-4), Frac(1, 20)>>)])
      [] name = "dilute"   -> Arr([ix \in Cells |-> Call("MakeCell", <<Frac(1 + ix, 100), PosZero, Static,
                                                         Frac(1, 100), PosZero, PosZero, PosZero>>)])

DissNames == {"zero", "mild", "strong"}

\* what Diss returns for cell ix in sub-step rk
Diss(name, rk, ix) ==
    LET k == CASE name = "zero" -> PosZero [] name = "mild" -> Frac(1 + ix, 20)
               [] name = "strong" -> Num(2 + ix + rk)
    IN  [dwmn      |-> Arr([al \in 0..4 |-> IF al = 0 THEN k ** Frac(1, 10) ELSE PosZero]),
         uWRHS     |-> Arr([idx \in 4..8 |-> IF idx \in {4, 7} \/ name = "strong"
                                            THEN k ** Frac(1, 10) ELSE PosZero]),
         uWSource  |-> Arr([idx \in 4..8 |-> CASE idx = 5 /\ name = "strong" -> RNeg(k)
                                             [] idx \in {4, 7} -> k
                                             [] OTHER -> PosZero]),
         uPRHS     |-> k ** Frac(1, 10),
         uPiSource |-> RNeg(k),
         uqRHS     |-> Arr([idx \in 11..13 |-> k ** Frac(1, 10)]),
         uqSource  |-> Arr([idx \in 11..13 |-> k])]

HydroNames == {"none", "finite", "nan_energy", "nan_rhob"}

\* what the hydro source returns for cell ix in sub-step rk
Hydro(name, rk, ix) ==
    [j_mu |-> Arr([ii \in 0..3 |->
                 CASE name = "nan_energy" /\ ii = 2 /\ ix = 1 -> NaN
                   [] ii = 0 /\ name # "none" -> Frac(1, 10)
                   [] OTHER -> PosZero]),
     rhob_source |-> CASE name = "nan_rhob" /\ ix = 0 -> NaN
                       [] name = "none" -> PosZero
                       [] OTHER -> Frac(1, 10)]

\* the equations of state and the cells the regularization functions are applied to alone
RegEos ==
    {[pratio |-> Third, cs2 |-> Third, dpde |-> Third],
     [pratio |-> Frac(1, 10), cs2 |-> Frac(1, 10), dpde |-> Frac(1, 10)],
     [pratio |-> Third, cs2 |-> Half, dpde |-> Half]}

\* the relaxation time factors they are applied with
RegTransport ==
    {[shear_relax_time_factor |-> Num(5), bulk_relax_time_factor |-> Frac(1, 15)],
     [shear_relax_time_factor |-> Num(5), bulk_relax_time_factor |-> Num(15)]}

\* the pairs of the two explored
RegMedia ==
    {m \in RegEos \X RegTransport :
        m[2].bulk_relax_time_factor = Num(15) => m[1].cs2 = Frac(1, 10)}

RegCellNames ==
    {"equilibrium", "mild", "shear", "bulk", "both", "negative", "dilute", "threshold",
     "moving", "nan", "vacuum", "strong", "compressed", "stretched"}

\* the cell after solveEigenvaluesWmunu: energy density, shear, bulk pressure
RegCell(name) ==
    CASE name = "equilibrium" -> Call("MakeCell", <<One, Half, Static, PosZero, PosZero, PosZero, PosZero>>)
      [] name = "mild"      -> Call("MakeCell", <<One, Half, Static, Frac(1, 10), PosZero, Frac(1, 20), Frac(1, 20)>>)
      [] name = "shear"     -> Call("MakeCell", <<One, Half, Static, Num(12), PosZero, Num(-4), Frac(1, 20)>>)
      [] name = "bulk"      -> Call("MakeCell", <<One, Half, Static, Frac(1, 10), PosZero, Frac(1, 20), Num(-9)>>)
      [] name = "both"      -> Call("MakeCell", <<Two, Half, Static, Num(-20), PosZero, Num(30), Num(15)>>)
      [] name = "negative"  -> Call("MakeCell", <<One, Half, Static, Num(2), PosZero, Num(-1), Num(-2)>>)
      [] name = "dilute"    -> Call("MakeCell", <<Frac(1, 128), PosZero, Static, Frac(1, 10), PosZero, PosZero, Frac(1, 10)>>)
      [] name = "threshold" -> Call("MakeCell", <<Frac(1, 100), PosZero, Static, Frac(1, 10), PosZero, Frac(-1, 20), PosZero>>)
      [] name = "moving"    -> Call("MakeCell", <<One, Half, VelocityCandidates[2], Num(3), PosZero, Num(1), Frac(-1, 2)>>)
      [] name = "nan"       -> Call("MakeCell", <<One, Half, Static, NaN, PosZero, Frac(1, 20), Frac(1, 20)>>)
      [] name = "vacuum"    -> EmptyCell
      [] name = "strong"    -> Call("MakeCell", <<One, Half, Static, Num(1), PosZero, Frac(1, 2), Num(1)>>)
      [] name = "compressed" -> Call("MakeCell", <<One, Half, Static, Frac(1, 20), PosZero, Frac(1, 20), Frac(-2, 5)>>)
      [] name = "stretched" -> Call("MakeCell", <<One, Half, Static, Num(2), PosZero, Num(-1), Num(3)>>)

-----------------------------------------------------------------------------
(* The dispatcher *)

Apply(f, a) ==
    CASE f = "RAdd" -> RAdd(a[1], a[2])
      [] f = "RSub" -> RSub(a[1], a[2])
      [] f = "RMul" -> RMul(a[1], a[2])
      [] f = "RDiv" -> RDiv(a[1], a[2])
      [] f = "RSqrt" -> RSqrt(a[1])
      [] f = "RExp" -> RExp(a[1])
      [] f = "nParts" -> nParts(a[1])
      [] f = "nViscous" -> nViscous(a[1], a[2])
      [] f = "nTransport" -> nTransport(a[1], a[2])
      [] f = "nCondition" -> nCondition(a[1])
      [] f = "nCandidate" -> nCandidate(a[1], a[2])
      [] f = "nAlp" -> nAlp(a[1], a[2])
      [] f = "FoldMin" -> FoldMin(a[1], a[2])
      [] f = "nLoop" -> nLoop(a[1], a[2], a[3])
      [] f = "nMinAlp" -> nMinAlp(a[1])
      [] f = "Rescale" -> Rescale(a[1], a[2])
      [] f = "nCausalityConstraints" -> nCausalityConstraints(a[1], a[2])
      [] f = "sParts" -> sParts(a[1])
      [] f = "Suff5" -> Suff5(a[1], a[2])
      [] f = "Suff7" -> Suff7(a[1], a[2])
      [] f = "Suff8" -> Suff8(a[1], a[2])
      [] f = "SuffHook" -> SuffHook(a[1], a[2], a[3])
      [] f = "BinarySearch" -> BinarySearch(a[1], a[2], a[3], a[4], a[5])
      [] f = "sCondition" -> sCondition(a[1])
      [] f = "sCandidate" -> sCandidate(a[1], a[2])
      [] f = "sBeta" -> sBeta(a[1], a[2])
      [] f = "sLoop" -> sLoop(a[1], a[2], a[3])
      [] f = "sClosedBeta" -> sClosedBeta(a[1])
      [] f = "sStage" -> sStage(a[1], a[2], a[3])
      [] f = "sCausalityConstraints" -> sCausalityConstraints(a[1], a[2])
      [] f = "QuestFactor" -> QuestFactor(a[1])
      [] f = "QuestRatios" -> QuestRatios(a[1])
      [] f = "QuestRevert" -> QuestRevert(a[1])
      [] f = "QuestRevert_qmu" -> QuestRevert_qmu(a[1])
      [] f = "EigenMatrix" -> EigenMatrix(a[1])
      [] f = "Det2" -> Det2(a[1], a[2], a[3])
      [] f = "Det3" -> Det3(a[1], a[2], a[3])
      [] f = "Det4" -> Det4(a[1])
      [] f = "CharPoly" -> CharPoly(a[1])
      [] f = "CharPolyD" -> CharPolyD(a[1], a[2], a[3])
      [] f = "Multiplicity" -> Multiplicity(a[1], a[2])
      [] f = "Canon" -> Canon(a[1])
      [] f = "EigenCandidates" -> EigenCandidates(a[1])
      [] f = "SumMult" -> SumMult(a[1], a[2])
      [] f = "Spectrum" -> Spectrum(a[1], a[2])
      [] f = "EigenLoop" -> EigenLoop(a[1], a[2], a[3])
      [] f = "EigenOutcomes" -> EigenOutcomes(a[1])
      [] f = "solveEigenvaluesWmunu" -> solveEigenvaluesWmunu(a[1], a[2])
      [] f = "EvolveStep" -> EvolveStep(a[1], a[2], a[3], a[4], a[5], a[6], a[7], a[8])
      [] f = "EvolveDissipative" -> EvolveDissipative(a[1], a[2], a[3], a[4], a[5])
      [] f = "RemakeW33" -> RemakeW33(a[1])
      [] f = "RemakeW0i" -> RemakeW0i(a[1])
      [] f = "RemakeW00" -> RemakeW00(a[1])
      [] f = "RemakeQ0" -> RemakeQ0(a[1])
      [] f = "BeforeEigen" -> BeforeEigen(a[1], a[2], a[3], a[4], a[5])
      [] f = "Regularize" -> Regularize(a[1], a[2])
      [] f = "FirstRKStepW" -> FirstRKStepW(a[1], a[2], a[3], a[4], a[5], a[6], a[7])
      [] f = "get_TJb" -> get_TJb(a[1], a[2], a[3])
      [] f = "get_TJb_Reconst" -> get_TJb_Reconst(a[1], a[2], a[3], a[4])
      [] f = "MaxSpeedCheck" -> MaxSpeedCheck(a[1], a[2], a[3], a[4], a[5], a[6])
      [] f = "MaxSpeed" -> MaxSpeed(a[1], a[2], a[3])
      [] f = "minmod_dx" -> minmod_dx(a[1], a[2], a[3])
      [] f = "Inverts" -> Inverts(a[1], a[2])
      [] f = "InvertedCell" -> InvertedCell(a[1], a[2])
      [] f = "FirstHit" -> FirstHit(a[1], a[2], a[3])
      [] f = "ReconstIt_shell" -> ReconstIt_shell(a[1], a[2], a[3])
      [] f = "Neighbours" -> Neighbours(a[1], a[2], a[3])
      [] f = "DirectionFlux" -> DirectionFlux(a[1], a[2], a[3], a[4])
      [] f = "MakeDeltaQI" -> MakeDeltaQI(a[1], a[2], a[3])
      [] f = "UpdateTJbRK" -> UpdateTJbRK(a[1], a[2])
      [] f = "SourceTerms" -> SourceTerms(a[1], a[2])
      [] f = "CombineRK" -> CombineRK(a[1], a[2], a[3], a[4], a[5], a[6])
      [] f = "FirstRKStepT" -> FirstRKStepT(a[1], a[2], a[3], a[4], a[5])
      [] f = "MakeCell" -> MakeCell(a[1], a[2], a[3], a[4], a[5], a[6], a[7])
      [] f = "Grid" -> Grid(a[1])
      [] f = "RegCell" -> RegCell(a[1])
      [] f = "Diss" -> Diss(a[1], a[2], a[3])
      [] f = "Hydro" -> Hydro(a[1], a[2], a[3])

\* C++ evaluates the arguments before the call
Call(f, a) == CHOOSE r \in {Apply(f, b) : b \in {a}} : TRUE

-----------------------------------------------------------------------------
(* AdvanceIt: the parallel loop over the cells, and its caller *)

Event(op, ix, u, wrote, lines, entered, qi) ==
    [op |-> op, rk |-> rk_flag, u |-> u, wrote |-> wrote, lines |-> lines, entered |-> entered,
     qi |-> qi]

\* the reconstructed cell dropped instead of stored
StoreT_dropped(ix, grid_rk_t) ==
    UNCHANGED <<arena_prev, arena_current, arena_future>>

\* UpdateTJbRK(grid_rk_t, arena_future(ix, iy, ieta))
StoreT(ix, grid_rk_t) ==
    /\ arena_future' = [arena_future EXCEPT ![ix] = Call("UpdateTJbRK", <<grid_rk_t, @>>)]
    /\ UNCHANGED <<arena_prev, arena_current>>

\* the cell written through a pointer into the current snapshot instead
StoreW_current(ix, grid_pt) ==
    /\ arena_current' = [arena_current EXCEPT ![ix] = grid_pt]
    /\ UNCHANGED <<arena_prev, arena_future>>

\* auto grid_pt_f = &(arena_future(ix, iy, ieta)), written through
StoreW(ix, grid_pt) ==
    /\ arena_future' = [arena_future EXCEPT ![ix] = grid_pt]
    /\ UNCHANGED <<arena_prev, arena_current>>

\* where the loop body of cell ix goes after FirstRKStepT
AfterT == IF DATA.viscosity_flag = 1 THEN "W" ELSE "done"

\* the ideal update of cell ix, run by whichever thread owns the iteration
StepT(ix) ==
    /\ phase = "advance"
    /\ pc[ix] = "T"
    /\ \E r \in {Call("FirstRKStepT", <<tau, arena_prev, arena_current, ix, rk_flag>>)} :
           IF r.exited
           THEN /\ phase' = "exited"
                /\ UNCHANGED <<arena_prev, arena_current, arena_future, pc, trace>>
           ELSE /\ StoreT(ix, r.grid_rk_t)
                /\ pc' = [pc EXCEPT ![ix] = AfterT]
                /\ trace' = [trace EXCEPT ![ix] =
                                Append(@, Event("T", ix, r.grid_rk_t.u, {<<"future", ix>>}, NoLines,
                                                 arena_future[ix], r.qi))]
                /\ UNCHANGED phase
    /\ UNCHANGED <<DATA, eos, transport_coeffs_, flag_add_hydro_source, diss_helper,
                   hydro_source_terms_ptr, reconst_helper, tau, rk_flag,
                   necessary_log, sufficient_log, probe>>

LogsWritten(lines) ==
    (IF lines.necessary # <<>> THEN {<<"necessary_log">>} ELSE {})
    \cup (IF lines.sufficient # <<>> THEN {<<"sufficient_log">>} ELSE {})

\* the dissipative update of cell ix
StepW(ix) ==
    /\ phase = "advance"
    /\ pc[ix] = "W"
    /\ \E ev \in Call("EigenOutcomes", <<Call("BeforeEigen", <<arena_prev[ix], arena_current[ix],
                                           arena_future[ix], rk_flag,
                                           diss_helper[rk_flag][ix]>>)>>) :
          \E r \in {Call("FirstRKStepW", <<tau, arena_prev[ix], arena_current[ix], arena_future[ix],
                                   rk_flag, diss_helper[rk_flag][ix], ev>>)} :
              /\ StoreW(ix, r.grid_pt)
              /\ necessary_log' = necessary_log \o r.lines.necessary
              /\ sufficient_log' = sufficient_log \o r.lines.sufficient
              /\ trace' = [trace EXCEPT ![ix] =
                              Append(@, Event("W", ix, arena_future[ix].u,
                                              {<<"future", ix>>} \cup LogsWritten(r.lines),
                                              r.lines, r.entered, <<>>))]
    /\ pc' = [pc EXCEPT ![ix] = "done"]
    /\ UNCHANGED <<DATA, eos, transport_coeffs_, flag_add_hydro_source, diss_helper,
                   hydro_source_terms_ptr, reconst_helper, tau, rk_flag, phase, probe>>

\* the caller between the two sub-steps: AdvanceIt has returned, the three
\* snapshot buffers are rotated and AdvanceIt is called again with rk_flag 1
Rotate ==
    /\ phase = "advance"
    /\ rk_flag = 0
    /\ \A ix \in Cells : pc[ix] = "done"
    /\ arena_prev' = arena_current
    /\ arena_current' = arena_future
    /\ arena_future' = arena_prev
    /\ rk_flag' = 1
    /\ pc' = [ix \in Cells |-> "T"]
    /\ UNCHANGED <<DATA, eos, transport_coeffs_, flag_add_hydro_source, diss_helper,
                   hydro_source_terms_ptr, reconst_helper, tau, phase,
                   necessary_log, sufficient_log, trace, probe>>

\* AdvanceIt returns from the second sub-step
Return ==
    /\ phase = "advance"
    /\ rk_flag = 1
    /\ \A ix \in Cells : pc[ix] = "done"
    /\ phase' = "returned"
    /\ UNCHANGED <<DATA, eos, transport_coeffs_, flag_add_hydro_source, diss_helper,
                   hydro_source_terms_ptr, reconst_helper, tau, rk_flag,
                   arena_prev, arena_current, arena_future, pc,
                   necessary_log, sufficient_log, trace, probe>>

\* the runs explored: configuration, hydro source, Diss, Reconstructor policy, grid
Scenarios ==
    {<<1, "none", "zero", "exit", "static">>,
     <<2, "finite", "zero", "exit", "gradient">>,
     <<2, "finite", "zero", "revert", "viscous">>,
     <<3, "none", "mild", "exit", "moving">>,
     <<3, "none", "mild", "exit", "static">>,
     <<4, "none", "strong", "exit", "static">>,
     <<3, "none", "mild", "revert", "stressed">>,
     <<4, "none", "strong", "revert", "viscous">>,
     <<4, "none", "mild", "revert", "dilute">>,
     <<3, "nan_energy", "mild", "exit", "static">>,
     <<2, "nan_rhob", "zero", "exit", "static">>,
     <<3, "nan_rhob", "mild", "revert", "moving">>,
     <<5, "finite", "mild", "revert", "moving">>,
     <<6, "none", "strong", "revert", "viscous">>,
     <<7, "none", "zero", "revert", "gradient">>,
     <<8, "finite", "strong", "revert", "dilute">>}

Init ==
    \E s \in Scenarios : \E grid \in {Call("Grid", <<s[5]>>)} :
        /\ DATA = Configs[s[1]]
        /\ eos = [pratio |-> Third, cs2 |-> Third, dpde |-> Third]
        /\ transport_coeffs_ = [shear_relax_time_factor |-> Num(5),
                                bulk_relax_time_factor |-> Frac(1, 15)]
        /\ flag_add_hydro_source = (s[2] # "none")
        /\ hydro_source_terms_ptr = [rk \in 0..1 |-> [ix \in Cells |-> Call("Hydro", <<s[2], rk, ix>>)]]
        /\ diss_helper = [rk \in 0..1 |-> [ix \in Cells |-> Call("Diss", <<s[3], rk, ix>>)]]
        /\ reconst_helper = [on_failure |-> s[4]]
        /\ tau = One
        /\ rk_flag = 0
        /\ arena_prev = grid
        /\ arena_current = grid
        /\ arena_future = [ix \in Cells |-> EmptyCell]
        /\ pc = [ix \in Cells |-> "T"]
        /\ phase = "advance"
        /\ necessary_log = <<>>
        /\ sufficient_log = <<>>
        /\ trace = [ix \in Cells |-> <<>>]
        /\ probe = <<>>

Next ==
    \/ \E ix \in Cells : StepT(ix)
    \/ \E ix \in Cells : StepW(ix)
    \/ Rotate
    \/ Return

Spec == Init /\ [][Next]_vars

-----------------------------------------------------------------------------
(* The regularization functions applied alone: a cell as FirstRKStepW      *)
(* leaves it after solveEigenvaluesWmunu is handed to QuestRevert,         *)
(* nCausalityConstraints, sCausalityConstraints or QuestRevert_qmu, and    *)
(* the result to a second of them.                                         *)

RegDepth == 2

RegProbe(op, in, out, factor, stages, lines) ==
    [op |-> op, in |-> in, out |-> out, factor |-> factor, stages |-> stages,
     lines |-> lines, depth |-> IF op = "none" THEN 0 ELSE probe.depth + 1]

RegUnchanged ==
    UNCHANGED <<DATA, eos, transport_coeffs_, flag_add_hydro_source, diss_helper,
                hydro_source_terms_ptr, reconst_helper, tau, rk_flag,
                arena_prev, arena_current, arena_future, pc, phase, trace>>

\* QuestRevert(tau, grid_pt_f, ieta, ix, iy)
RegQuestRevert ==
    /\ phase = "idle"
    /\ probe.depth < RegDepth
    /\ \E r \in {Call("QuestRevert", <<probe.out>>)} :
           probe' = RegProbe("QuestRevert", probe.out, r, One, <<>>, NoLines)
    /\ UNCHANGED <<necessary_log, sufficient_log>>
    /\ RegUnchanged

\* nCausalityConstraints(grid_pt_f, tau)
RegNecessary ==
    /\ phase = "idle"
    /\ probe.depth < RegDepth
    /\ \E r \in {Call("nCausalityConstraints", <<probe.out, tau>>)} :
           /\ probe' = RegProbe("nCausalityConstraints", probe.out, r.grid_pt, r.factor, <<>>,
                                [necessary |-> r.lines, sufficient |-> <<>>])
           /\ necessary_log' = necessary_log \o r.lines
    /\ UNCHANGED sufficient_log
    /\ RegUnchanged

\* sCausalityConstraints(grid_pt_f, tau)
RegSufficient ==
    /\ phase = "idle"
    /\ probe.depth < RegDepth
    /\ \E r \in {Call("sCausalityConstraints", <<probe.out, tau>>)} :
           /\ probe' = RegProbe("sCausalityConstraints", probe.out, r.grid_pt, r.factor, r.stages,
                                [necessary |-> <<>>, sufficient |-> r.lines])
           /\ sufficient_log' = sufficient_log \o r.lines
    /\ UNCHANGED necessary_log
    /\ RegUnchanged

\* QuestRevert_qmu(tau, grid_pt_f, ieta, ix, iy)
RegQuestRevert_qmu ==
    /\ phase = "idle"
    /\ probe.depth < RegDepth
    /\ \E r \in {Call("QuestRevert_qmu", <<probe.out>>)} :
           probe' = RegProbe("QuestRevert_qmu", probe.out, r, One, <<>>, NoLines)
    /\ UNCHANGED <<necessary_log, sufficient_log>>
    /\ RegUnchanged

RegInit ==
    \E m \in RegMedia : \E name \in RegCellNames : \E c \in {Call("RegCell", <<name>>)} :
        /\ DATA = Configs[3]
        /\ eos = m[1]
        /\ transport_coeffs_ = m[2]
        /\ flag_add_hydro_source = FALSE
        /\ hydro_source_terms_ptr = <<>>
        /\ diss_helper = <<>>
        /\ reconst_helper = [on_failure |-> "exit"]
        /\ tau = One
        /\ rk_flag = 0
        /\ arena_prev = <<>>
        /\ arena_current = <<>>
        /\ arena_future = <<>>
        /\ pc = <<>>
        /\ phase = "idle"
        /\ necessary_log = <<>>
        /\ sufficient_log = <<>>
        /\ trace = <<>>
        /\ probe = [op |-> "none", in |-> c, out |-> c, factor |-> One, stages |-> <<>>,
                    lines |-> NoLines, depth |-> 0]

RegNext ==
    \/ RegQuestRevert
    \/ RegNecessary
    \/ RegSufficient
    \/ RegQuestRevert_qmu

SpecReg == RegInit /\ [][RegNext]_vars

\* the engine, and beside it the regularization functions applied alone
AllInit == Init \/ RegInit

AllNext == Next \/ RegNext

SpecAll == AllInit /\ [][AllNext]_vars

-----------------------------------------------------------------------------
(* Properties of the regularization functions *)

\* the ceiling of QuestRevert and the rounding the recomputed ratio may carry
QuestCeiling == Frac(1, 10)

QuestSlack == Frac(1, 1000)

\* the ratios on entry and on the resulting cell, where QuestRevert has just run
QuestSeen ==
    IF probe.op = "QuestRevert"
    THEN [ran |-> TRUE, in |-> Call("QuestRatios", <<probe.in>>),
          out |-> Call("QuestRatios", <<probe.out>>)]
    ELSE [ran |-> FALSE]

\* C11: QuestRevert caps the shear ratio.  A ratio above 0.1 on entry multiplies
\* all ten shear components by 0.1/rho_shear, and the ratio recomputed on the
\* resulting cell is at most 0.1 (to the rounding of the arithmetic); a ratio of
\* at most 0.1 leaves them unchanged; a not-a-number ratio makes all ten exactly
\* zero.  The bulk pressure is capped the same way with its own ratio.
C11_QuestRevertCaps ==
    QuestSeen.ran =>
        LET rs == QuestSeen.in.rho_shear
            rb == QuestSeen.in.rho_bulk
            Wi == probe.in.Wmunu
            Wo == probe.out.Wmunu
        IN  /\ IsNaN(rs) => \A mu \in 0..9 : Wo[mu] = PosZero
            /\ RGt(rs, QuestCeiling) =>
                   /\ \A mu \in 0..9 : Wo[mu] = RMul(RDiv(QuestCeiling, rs), Wi[mu])
                   /\ RLe(QuestSeen.out.rho_shear, RAdd(QuestCeiling, QuestSlack))
            /\ RLe(rs, QuestCeiling) => \A mu \in 0..9 : Wo[mu] = Wi[mu]
            /\ RGt(rb, QuestCeiling) =>
                   /\ probe.out.pi_b = RMul(RDiv(QuestCeiling, rb), probe.in.pi_b)
                   /\ RLe(QuestSeen.out.rho_bulk, RAdd(QuestCeiling, QuestSlack))
            /\ RLe(rb, QuestCeiling) => probe.out.pi_b = probe.in.pi_b
            /\ \A mu \in 10..13 : Wo[mu] = Wi[mu]

\* QuestRevert has scaled a shear tensor whose ratio was above the ceiling, has
\* zeroed another whose ratio was not a number, and has scaled a bulk pressure
C11_Witness ==
    /\ QuestSeen.ran
    /\ RGt(QuestSeen.in.rho_shear, QuestCeiling)
    /\ IsFinite(QuestSeen.in.rho_shear)
    /\ RGt(QuestSeen.in.rho_bulk, QuestCeiling)
    /\ RGt(QuestSeen.out.rho_shear, Frac(9, 100))
    /\ probe.out.Wmunu[4] # probe.in.Wmunu[4]
    /\ probe.out.pi_b # probe.in.pi_b

\* the invocations of the causality functions a step makes: which method, on
\* what energy density, and (where the function is applied alone) the bulk
\* pressure before and after
LogInvocations ==
    IF phase = "idle"
    THEN IF probe'.op \in {"nCausalityConstraints", "sCausalityConstraints"}
         THEN {[method |-> IF probe'.op = "nCausalityConstraints" THEN 1 ELSE 2,
                eps |-> probe'.in.epsilon, alone |-> TRUE]}
         ELSE {}
    ELSE {[method |-> DATA.causality_method, eps |-> arena_future[ix].epsilon, alone |-> FALSE] :
             ix \in {i \in Cells : /\ pc[i] = "W"
                                   /\ pc'[i] = "done"
                                   /\ DATA.Initial_profile \notin {0, 1}
                                   /\ DATA.causality_method \in {1, 2}}}

\* log' is log with one record of an invocation appended; the factor recorded
\* is the one the bulk pressure was multiplied by
LogGained(log, logAfter, inv) ==
    /\ Len(logAfter) = Len(log) + 1
    /\ SubSeq(logAfter, 1, Len(log)) = log
    /\ logAfter[Len(logAfter)].eps = inv.eps
    /\ logAfter[Len(logAfter)].tau = tau
    /\ inv.alone => /\ logAfter[Len(logAfter)].factor = probe'.factor
                    /\ probe'.out.pi_b = RMul(probe'.in.pi_b, probe'.factor)

LogStep(log, logAfter, method) ==
    IF \E inv \in LogInvocations : inv.method = method /\ RGt(inv.eps, Frac(1, 100))
    THEN \E inv \in LogInvocations : inv.method = method /\ LogGained(log, logAfter, inv)
    ELSE logAfter = log

\* C12: each log only grows, by exactly one record (damping factor, energy
\* density, proper time) per invocation of nCausalityConstraints or
\* sCausalityConstraints on a cell with energy density above 0.01 and by none at
\* or below 0.01; the necessary method writes the necessary log only, the
\* sufficient method the sufficient log only, and no other step writes either.
C12_LogAppendOnly ==
    [][/\ LogStep(necessary_log, necessary_log', 1)
       /\ LogStep(sufficient_log, sufficient_log', 2)]_vars

\* the necessary method has run twice on every cell, on one at the threshold
\* and on one above it, and only the latter's two records are in its log
C12_Witness ==
    /\ phase = "returned"
    /\ DATA.causality_method = 1
    /\ DATA.Initial_profile \notin {0, 1}
    /\ \A ix \in Cells : Len(SelectSeq(trace[ix], LAMBDA ev : ev.op = "W")) = 2
    /\ \E ix \in Cells : arena_future[ix].epsilon = Frac(1, 100)
    /\ Cardinality({ix \in Cells : RGt(arena_future[ix].epsilon, Frac(1, 100))}) = 1
    /\ Len(necessary_log) = 2
    /\ sufficient_log = <<>>

-----------------------------------------------------------------------------
(* Properties of FirstRKStepW inside the engine *)

\* the cells whose dissipative update is the last thing done to them
JustUpdated ==
    {ix \in Cells : /\ pc[ix] = "done"
                    /\ trace[ix] # <<>>
                    /\ trace[ix][Len(trace[ix])].op = "W"}

\* shear tensor, bulk pressure and cached eigenvalues of two cells agree
SameViscous(g, h) ==
    /\ \A mu \in 0..9 : g.Wmunu[mu] = h.Wmunu[mu]
    /\ g.pi_b = h.pi_b
    /\ g.Lambdas = h.Lambdas

\* what regularization must leave of a cell g0, given what it left (g) and the
\* lines it appended
RegularizedAs(g0, g, lines) ==
    IF DATA.Initial_profile \in {0, 1}
    THEN g = g0 /\ lines = NoLines
    ELSE \E q \in {Call("QuestRevert", <<g0>>)} :
           CASE DATA.causality_method = 1 ->
                  \E n \in {Call("nCausalityConstraints", <<q, tau>>)} :
                      /\ SameViscous(g, n.grid_pt)
                      /\ lines = [necessary |-> n.lines, sufficient |-> <<>>]
             [] DATA.causality_method = 2 ->
                  \E sc \in {Call("sCausalityConstraints", <<q, tau>>)} :
                      /\ SameViscous(g, sc.grid_pt)
                      /\ lines = [necessary |-> <<>>, sufficient |-> sc.lines]
             [] OTHER ->
                  /\ SameViscous(g, q)
                  /\ g.Lambdas = g0.Lambdas
                  /\ lines = NoLines

\* C13: regularization runs only when Initial_profile is neither 0 nor 1, and
\* then QuestRevert first and the causality function second; causality_method
\* selects none (0), the necessary (1) or the sufficient (2) conditions; with
\* method 0, or profile 0 or 1, nothing is rescaled for causality and no record
\* is written.
C13_RegularizationOrder ==
    \A ix \in JustUpdated :
        RegularizedAs(trace[ix][Len(trace[ix])].entered, arena_future[ix],
                      trace[ix][Len(trace[ix])].lines)

\* a cell whose shear QuestRevert cut down and which the necessary conditions
\* then damped further
C13_Witness ==
    \E ix \in JustUpdated :
        LET g0 == trace[ix][Len(trace[ix])].entered
            g  == arena_future[ix]
        IN  /\ DATA.causality_method = 1
            /\ DATA.Initial_profile \notin {0, 1}
            /\ RGt(Call("QuestRatios", <<g0>>).rho_shear, QuestCeiling)
            /\ ~IsZero(g.Wmunu[4])
            /\ g.Wmunu[4] # Call("QuestRevert", <<g0>>).Wmunu[4]
            /\ g.Lambdas # g0.Lambdas

-----------------------------------------------------------------------------
(* Properties of FirstRKStepT inside the engine *)

\* the ideal updates cell ix has had in the running sub-step
IdealEvents(ix) ==
    IF phase \in {"advance", "returned"}
    THEN SelectSeq(trace[ix], LAMBDA ev : ev.op = "T" /\ ev.rk = rk_flag)
    ELSE <<>>

\* the raw update of cell ix: the current conserved vector plus the flux and
\* geometric terms, minus the dissipative divergence, plus the sources
RawUpdate(ix) ==
    LET tau_rk == RAdd(tau, RMul(Num(rk_flag), DATA.delta_tau))
        dq  == Call("MakeDeltaQI", <<tau_rk, arena_current, ix>>).qi
        src == Call("SourceTerms", <<tau_rk, hydro_source_terms_ptr[rk_flag][ix]>>).qi_source
        dw  == diss_helper[rk_flag][ix].dwmn
    IN  [al \in 0..4 |-> RAdd(RSub(dq[al], RMul(dw[al], DATA.delta_tau)),
                              RMul(src[al], DATA.delta_tau))]

\* C14: the vector handed to the Reconstructor is the raw update when rk_flag is
\* 0 and, when rk_flag is 1, exactly one half of the sum of the raw update and
\* the previous snapshot's tau*T^{tau alpha}, in each of the 5 components.
C14_RungeKuttaCombination ==
    \A ix \in Cells :
        IdealEvents(ix) # <<>> =>
            \E raw \in {RawUpdate(ix)} :
                \A al \in 0..4 :
                    IdealEvents(ix)[1].qi[al] =
                        IF rk_flag = 0 THEN raw[al]
                        ELSE RMul(Half, RAdd(raw[al],
                                             RMul(Call("get_TJb", <<arena_prev[ix], al, 0>>), tau)))

\* a second sub-step has averaged a raw update with a previous snapshot that
\* differs from it
C14_Witness ==
    \E ix \in Cells :
        /\ rk_flag = 1
        /\ IdealEvents(ix) # <<>>
        /\ \E raw \in {RawUpdate(ix)} :
               /\ IdealEvents(ix)[1].qi[0] # raw[0]
               /\ IdealEvents(ix)[1].qi[4] # raw[4]
               /\ \A al \in 0..4 : IsFinite(raw[al])

-----------------------------------------------------------------------------
(* The dissipative update formula *)

\* the last dissipative update of a cell in JustUpdated
LastW(ix) == trace[ix][Len(trace[ix])]

\* the evolved quantities of cell ix whose physics flag is on, each with the
\* value the update gave it, its current and previous values, its source and
\* its flux divergence
Evolved(ix) ==
    LET f  == LastW(ix).entered
        c  == arena_current[ix]
        p  == arena_prev[ix]
        en == diss_helper[rk_flag][ix]
    IN  (IF DATA.turn_on_shear = 1
         THEN {[new |-> f.Wmunu[idx], cur |-> c.Wmunu[idx], prev |-> p.Wmunu[idx],
                source |-> en.uWSource[idx], flux |-> en.uWRHS[idx]] : idx \in 4..8}
         ELSE {})
        \cup
        (IF DATA.turn_on_bulk = 1
         THEN {[new |-> f.pi_b, cur |-> c.pi_b, prev |-> p.pi_b,
                source |-> en.uPiSource, flux |-> en.uPRHS]}
         ELSE {})
        \cup
        (IF DATA.turn_on_diff = 1
         THEN {[new |-> f.Wmunu[idx], cur |-> c.Wmunu[idx], prev |-> p.Wmunu[idx],
                source |-> en.uqSource[idx], flux |-> en.uqRHS[idx]] : idx \in 11..13}
         ELSE {})

\* (1-w)*Q_current*u0_current + w*Q_previous*u0_previous + source*delta_tau
\* + flux divergence
RelaxationNumerator(ix, q) ==
    RAdd(RAdd(RAdd(RMul(RSub(One, Num(rk_flag)), RMul(q.cur, arena_current[ix].u[0])),
                   RMul(Num(rk_flag), RMul(q.prev, arena_prev[ix].u[0]))),
              RMul(q.source, DATA.delta_tau)),
         q.flux)

\* numerator / (1+w) / u0_future
Recovered(ix, numerator) ==
    RDiv(RMul(numerator, RDiv(One, RAdd(One, Num(rk_flag)))), arena_future[ix].u[0])

\* C15 as stated: the value the update gives each enabled quantity is the
\* relaxation numerator over (1+w) and the future u0, nothing else added.
C15_NoOtherTerm ==
    \A ix \in JustUpdated : \A q \in Evolved(ix) :
        q.new = Recovered(ix, RelaxationNumerator(ix, q))

\* C15: the value the update gives each enabled quantity, before the cell is
\* regularized, is the relaxation numerator plus w*Q_current*u0_current, over
\* (1+w) and the future u0.
C15_DissipativeUpdate ==
    \A ix \in JustUpdated : \A q \in Evolved(ix) :
        q.new = Recovered(ix, RAdd(RelaxationNumerator(ix, q),
                                   RMul(Num(rk_flag), RMul(q.cur, arena_current[ix].u[0]))))

\* a second sub-step has updated a shear component whose current and previous
\* values differ and are not zero
C15_Witness ==
    \E ix \in JustUpdated :
        /\ rk_flag = 1
        /\ DATA.turn_on_shear = 1
        /\ DATA.turn_on_bulk = 1
        /\ \E q \in Evolved(ix) :
               /\ ~IsZero(q.cur)
               /\ q.cur # q.prev
               /\ IsFinite(q.new)
               /\ ~IsZero(q.new)
               /\ q.new # Recovered(ix, RelaxationNumerator(ix, q))

-----------------------------------------------------------------------------
(* Disabled dissipative quantities *)

\* every dissipative quantity whose flag is off is zero in cell g
ZeroWhereDisabled(g) ==
    /\ DATA.turn_on_shear # 1 => \A mu \in 0..9 : IsZero(g.Wmunu[mu])
    /\ DATA.turn_on_bulk # 1 => IsZero(g.pi_b)
    /\ DATA.turn_on_diff # 1 => \A mu \in 10..13 : IsZero(g.Wmunu[mu])

\* C16 as stated: once the loop body of a cell has finished, in any sub-step of
\* any configuration, its disabled quantities are zero in the future cell.
C16_ZeroAfterEverySubStep ==
    \A ix \in Cells : pc[ix] = "done" => ZeroWhereDisabled(arena_future[ix])

\* C16: once the dissipative update of a cell has run (viscosity_flag is 1),
\* its disabled quantities are zero in the future cell, whatever the future
\* cell held before the sub-step.
C16_ZeroWhereDisabled ==
    \A ix \in JustUpdated : ZeroWhereDisabled(arena_future[ix])

\* a second sub-step zeroed a bulk pressure that the future cell held on entry
C16_Witness ==
    \E ix \in JustUpdated :
        /\ rk_flag = 1
        /\ DATA.turn_on_shear = 1
        /\ DATA.turn_on_bulk # 1
        /\ IdealEvents(ix) # <<>>
        /\ ~IsZero(IdealEvents(ix)[1].entered.pi_b)
        /\ IsZero(arena_future[ix].pi_b)
        /\ ~IsZero(arena_future[ix].Wmunu[4])

-----------------------------------------------------------------------------
(* The damping factor of the necessary conditions *)

\* the orders in which the 4 conditions can be examined
ConditionOrders ==
    {o \in [1..4 -> 0..3] : \A i \in 0..3 : \E k \in 1..4 : o[k] = i}

\* the candidates of the 4 conditions on cell g (1 for a condition that holds)
Candidates(g) == {Call("nAlp", <<g, i>>) : i \in 0..3}

\* C17: the factor nCausalityConstraints applies lies in [0, 1]; it is 0 when
\* a candidate is negative and otherwise the least of 1 and the positive
\* candidates; examining the 4 conditions in any other order gives the same
\* factor.
C17_MinimumPositiveAlpha ==
    probe.op = "nCausalityConstraints" =>
        \E cs \in {Candidates(probe.in)} :
            LET f   == probe.factor
                pos == {One} \cup {c \in cs : RGt(c, PosZero)}
            IN  /\ RGe(f, PosZero)
                /\ RLe(f, One)
                /\ IF \E c \in cs : RLt(c, PosZero)
                   THEN IsZero(f)
                   ELSE f \in pos /\ \A c \in pos : RLe(f, c)
                /\ \A o \in ConditionOrders : Call("nLoop", <<probe.in, o, One>>) = f
                /\ probe.out.pi_b = RMul(probe.in.pi_b, f)

\* the factor is 0 because of a negative candidate although another candidate
\* lies strictly between 0 and 1
C17_Witness ==
    /\ probe.op = "nCausalityConstraints"
    /\ IsZero(probe.factor)
    /\ \E c \in Candidates(probe.in) : RLt(c, PosZero)
    /\ \E c \in Candidates(probe.in) : RGt(c, PosZero) /\ RLt(c, One)
    /\ ~IsZero(probe.in.pi_b)

-----------------------------------------------------------------------------
(* The closed-form candidates *)

\* what is left of a condition's expression counts as 0 up to this much
ResidualSlack == Frac(1, 50)

\* the violated closed-form conditions of the cell a causality function was
\* applied to, each with its candidate and with the condition's expression
\* re-evaluated on the cell rescaled by the candidate
ViolatedConditions ==
    CASE probe.op = "nCausalityConstraints" ->
           {[name |-> <<"n", i>>,
             candidate |-> Call("nCandidate", <<probe.in, i>>),
             residual |-> Call("nCondition", <<Call("Rescale", <<probe.in,
                                   Call("nCandidate", <<probe.in, i>>)>>)>>)[i]] :
            i \in {j \in 0..3 : RLt(Call("nCondition", <<probe.in>>)[j], PosZero)}}
      [] probe.op = "sCausalityConstraints" ->
           {[name |-> <<"s", i>>,
             candidate |-> Call("sCandidate", <<probe.in, i>>),
             residual |-> Call("sCondition", <<Call("Rescale", <<probe.in,
                                   Call("sCandidate", <<probe.in, i>>)>>)>>)[i]] :
            i \in {j \in 0..2 : RLt(Call("sCondition", <<probe.in>>)[j], PosZero)}}
      [] OTHER -> {}

\* C18: the candidate of every violated closed-form condition (n1, n3, n5, n6,
\* s1, s2, s6) solves that condition at equality: with the bulk pressure and
\* the eigenvalues multiplied by the candidate the condition's expression is 0.
C18_CandidateSolvesCondition ==
    \A v \in ViolatedConditions : RLe(RAbs(v.residual), ResidualSlack)

\* every finite candidate other than that of s1 solves its condition
C18_AllButS1 ==
    \A v \in ViolatedConditions :
        v.name # <<"s", 0>> /\ IsFinite(v.candidate) => RLe(RAbs(v.residual), ResidualSlack)

\* a finite candidate of s1 never solves s1 when the least eigenvalue is negative
C18_S1Unsolved ==
    \A v \in ViolatedConditions :
        (v.name = <<"s", 0>> /\ IsFinite(v.candidate) /\ RLt(probe.in.Lambdas[0], PosZero))
            => RGt(RAbs(v.residual), ResidualSlack)

-----------------------------------------------------------------------------
(* The bisection stages of the sufficient conditions *)

\* the sufficiency functions in the order of their stages
StageFunctions == <<5, 7, 8>>

\* beta on entry to stage i of the call the probe records
BetaBefore(i) ==
    IF i = 1 THEN Call("sClosedBeta", <<probe.in>>) ELSE probe.stages[i - 1].minBeta

\* stage i did what is claimed of it: no search and beta kept when the function
\* is not negative at beta; otherwise a search on [0, beta], whose result
\* becomes beta on success; on failure beta 0 without message for Suff5 with
\* cs2 < 0.15, else the message and beta kept
StageAsClaimed(i) ==
    LET k  == StageFunctions[i]
        b  == BetaBefore(i)
        st == probe.stages[i]
    IN  IF RLt(Call("SuffHook", <<k, b, probe.in>>), PosZero)
        THEN \E r \in {Call("BinarySearch", <<PosZero, b, k, PosZero, probe.in>>)} :
                /\ st.ran
                /\ st.status = r.status
                /\ IF r.status
                   THEN /\ st.minBeta = r.result
                        /\ RGe(r.result, PosZero)
                        /\ RLe(r.result, b)
                        /\ ~st.message
                   ELSE IF k = 5 /\ RLt(eos.cs2, Frac(15, 100))
                        THEN IsZero(st.minBeta) /\ ~st.message
                        ELSE st.minBeta = b /\ st.message
        ELSE ~st.ran /\ st.minBeta = b /\ ~st.message

\* C19: in sCausalityConstraints the three stages Suff5, Suff7, Suff8 run in
\* that order, each as claimed on the beta the stage before it left, and the
\* cell is rescaled by the beta the last stage leaves: by the unmodified beta
\* when a stage failed with the message and no later stage found a root.
C19_BisectionStages ==
    probe.op = "sCausalityConstraints" =>
        /\ Len(probe.stages) = 3
        /\ \A i \in 1..3 : StageAsClaimed(i)
        /\ probe.factor = probe.stages[3].minBeta
        /\ probe.out.pi_b = RMul(probe.in.pi_b, probe.factor)
        /\ \A mu \in WIdx : probe.out.Wmunu[mu] = RMul(probe.in.Wmunu[mu], probe.factor)
        /\ \A i \in 1..3 :
              (probe.stages[i].message /\ \A j \in (i + 1)..3 : ~probe.stages[j].ran)
                  => probe.factor = BetaBefore(i)

\* Suff5 found a root and Suff8 then failed with the message: the cell is
\* rescaled by the beta Suff8 was entered with
C19_Witness ==
    /\ probe.op = "sCausalityConstraints"
    /\ probe.stages[1].ran
    /\ probe.stages[1].status
    /\ probe.stages[3].ran
    /\ probe.stages[3].message
    /\ RGt(probe.factor, PosZero)
    /\ RLt(probe.factor, One)
    /\ ~IsZero(probe.out.pi_b)

-----------------------------------------------------------------------------
(* The cached eigenvalues *)

\* the shear tensor and the cached eigenvalues of g are those of g0 rescaled
\* by one common factor: W(g)[mu] * Lambda(g0)[i] = W(g0)[mu] * Lambda(g)[i]
SameFactor(g0, g) ==
    \A mu \in 0..9 : \A i \in 0..2 :
        RLe(RAbs(RSub(RMul(g.Wmunu[mu], g0.Lambdas[i]), RMul(g0.Wmunu[mu], g.Lambdas[i]))),
            ResidualSlack)

\* the cell entered regularization with a finite tensor and finite eigenvalues
FiniteViscous(g0) ==
    /\ \A mu \in 0..9 : IsFinite(g0.Wmunu[mu])
    /\ \A i \in 0..2 : IsFinite(g0.Lambdas[i])

\* C20: at the end of every dissipative update the cached eigenvalues are those
\* of the stored shear tensor: whatever rescaled the tensor after
\* solveEigenvaluesWmunu rescaled the eigenvalues by the same factor.
C20_EigenvaluesMatchTensor ==
    \A ix \in JustUpdated :
        FiniteViscous(LastW(ix).entered) => SameFactor(LastW(ix).entered, arena_future[ix])

\* the two causality functions alone rescale tensor and eigenvalues alike
C20_CausalityKeepsMatch ==
    (probe.op \in {"nCausalityConstraints", "sCausalityConstraints"} /\ FiniteViscous(probe.in))
        => SameFactor(probe.in, probe.out)

\* QuestRevert alone rescales tensor and eigenvalues alike
C20_QuestRevertKeepsMatch ==
    (probe.op = "QuestRevert" /\ FiniteViscous(probe.in)) => SameFactor(probe.in, probe.out)

-----------------------------------------------------------------------------
(* What one AdvanceIt invocation writes *)

\* C1: within one AdvanceIt invocation no step of FirstRKStepT or FirstRKStepW,
\* regularization included, changes a cell of the previous or of the current
\* snapshot; the cells written are cells of the future snapshot.
C1_WritesFutureOnly ==
    [][(phase = "advance" /\ rk_flag' = rk_flag)
          => /\ arena_prev' = arena_prev
             /\ arena_current' = arena_current
             /\ \A ix \in Cells : \A k \in 1..Len(trace'[ix]) :
                    \A w \in trace'[ix][k].wrote : Len(w) = 2 => w = <<"future", ix>>]_vars

\* both sub-steps have run, a regularized dissipative update has given a cell
\* of the future snapshot values found in neither other snapshot
C1_Witness ==
    /\ phase = "returned"
    /\ DATA.Initial_profile \notin {0, 1}
    /\ \E ix \in JustUpdated :
           /\ arena_future[ix].Wmunu # arena_current[ix].Wmunu
           /\ arena_future[ix].Wmunu # arena_prev[ix].Wmunu
           /\ LastW(ix).entered.Wmunu # arena_future[ix].Wmunu

-----------------------------------------------------------------------------
(* Independence of the cell updates *)

\* the resources two updates of distinct cells in one sub-step both wrote
SharedWrites ==
    UNION {trace[ix][k].wrote \cap trace[jx][l].wrote :
             <<ix, k, jx, l>> \in {q \in Cells \X (1..4) \X Cells \X (1..4) :
                                     /\ q[1] # q[3]
                                     /\ q[2] <= Len(trace[q[1]])
                                     /\ q[4] <= Len(trace[q[3]])
                                     /\ trace[q[1]][q[2]].rk = trace[q[3]][q[4]].rk}}

\* C2: within one AdvanceIt invocation no two updates of distinct cells write
\* the same resource.
C2_NoSharedWrites == SharedWrites = {}

\* the grid cells alone are never shared: what two cell updates both write is
\* a reduction factor file
C2_OnlyLogsShared ==
    \A w \in SharedWrites : w \in {<<"necessary_log">>, <<"sufficient_log">>}

-----------------------------------------------------------------------------
(* Ideal update before dissipative update *)

\* C3: every dissipative update of a cell comes directly after the ideal
\* update of the same cell in the same sub-step, and the future velocity it
\* reads is the velocity that ideal update stored; a cell waiting for its
\* dissipative update has had its ideal update in this sub-step.
C3_IdealBeforeDissipative ==
    \A ix \in Cells :
        /\ \A k \in 1..Len(trace[ix]) :
              trace[ix][k].op = "W" =>
                  /\ k > 1
                  /\ trace[ix][k - 1].op = "T"
                  /\ trace[ix][k - 1].rk = trace[ix][k].rk
                  /\ trace[ix][k].u = trace[ix][k - 1].u
                  /\ trace[ix][k].entered.u = trace[ix][k - 1].u
        /\ (phase = "advance" /\ pc[ix] = "W") =>
              /\ IdealEvents(ix) # <<>>
              /\ arena_future[ix].u = IdealEvents(ix)[1].u

\* a dissipative update has read a velocity, stored by the ideal update
\* before it, that the future cell did not hold before
C3_Witness ==
    \E ix \in JustUpdated :
        /\ IdealEvents(ix) # <<>>
        /\ LastW(ix).u = IdealEvents(ix)[1].u
        /\ LastW(ix).u # IdealEvents(ix)[1].entered.u
        /\ LastW(ix).u # Static

-----------------------------------------------------------------------------
(* Regularization and the primitive variables *)

\* C4: QuestRevert, nCausalityConstraints, sCausalityConstraints and
\* QuestRevert_qmu leave energy density, net-charge density and four-velocity
\* of the cell as they were on entry, applied alone or inside the dissipative
\* update.
C4_PrimitivesUntouched ==
    /\ (phase = "idle" /\ probe.op # "none") =>
          /\ probe.out.epsilon = probe.in.epsilon
          /\ probe.out.rhob = probe.in.rhob
          /\ probe.out.u = probe.in.u
    /\ phase # "idle" =>
          \A ix \in JustUpdated :
              /\ arena_future[ix].epsilon = LastW(ix).entered.epsilon
              /\ arena_future[ix].rhob = LastW(ix).entered.rhob
              /\ arena_future[ix].u = LastW(ix).entered.u

\* a moving cell whose dissipative quantities a causality function damped
C4_Witness ==
    /\ phase = "idle"
    /\ probe.op \in {"nCausalityConstraints", "sCausalityConstraints"}
    /\ RGt(probe.factor, PosZero)
    /\ RLt(probe.factor, One)
    /\ probe.in.u # Static
    /\ probe.out.Wmunu # probe.in.Wmunu
    /\ probe.out.pi_b # probe.in.pi_b
    /\ RGt(probe.in.rhob, PosZero)

-----------------------------------------------------------------------------
(* Not-a-number source terms *)

\* some component of qi_source of cell ix in sub-step rk is not a number
NaNSource(rk, ix) ==
    LET tau_rk == RAdd(tau, RMul(Num(rk), DATA.delta_tau))
        src == Call("SourceTerms", <<tau_rk, hydro_source_terms_ptr[rk][ix]>>).qi_source
    IN  flag_add_hydro_source /\ \E al \in 0..4 : IsNaN(src[al])

\* C5: with external sources enabled, a cell one of whose five source terms is
\* not a number ends the run inside the ideal update; no ideal update of such a
\* cell completes and writes its future state.
C5_NaNSourceStops ==
    \A ix \in Cells : \A i \in 1..Len(trace[ix]) :
        trace[ix][i].op = "T" => ~NaNSource(trace[ix][i].rk, ix)

-----------------------------------------------------------------------------
(* MaxSpeed applied alone to one reconstructed cell *)

\* what the equation of state can answer for cs2 and dpde: the usual values,
\* and the ones the two branches of MaxSpeed and its checks are written for
SpeedEos ==
    {[pratio |-> Third, cs2 |-> Third, dpde |-> Third],
     [pratio |-> Third, cs2 |-> Num(2), dpde |-> Third],
     [pratio |-> Third, cs2 |-> Frac(-1, 10), dpde |-> Third],
     [pratio |-> Third, cs2 |-> Frac(-1, 10), dpde |-> PosZero],
     [pratio |-> Third, cs2 |-> Frac(-1, 10), dpde |-> Frac(-1, 10)]}

SpeedCells ==
    {[e |-> e, rhob |-> Half, u |-> VelocityCandidates[i]] :
        e \in {PosZero, Half, Frac(7769, 10000), One, Num(-1)},
        i \in 1..Len(VelocityCandidates)}

SpeedInit ==
    \E m \in SpeedEos : \E c \in SpeedCells : \E direc \in 1..3 : \E t \in {One, Two} :
        /\ DATA = Configs[3]
        /\ eos = m
        /\ transport_coeffs_ = [shear_relax_time_factor |-> Num(5),
                                bulk_relax_time_factor |-> Frac(1, 15)]
        /\ flag_add_hydro_source = FALSE
        /\ hydro_source_terms_ptr = <<>>
        /\ diss_helper = <<>>
        /\ reconst_helper = [on_failure |-> "exit"]
        /\ tau = t
        /\ rk_flag = 0
        /\ arena_prev = <<>>
        /\ arena_current = <<>>
        /\ arena_future = <<>>
        /\ pc = <<>>
        /\ phase = "speed"
        /\ necessary_log = <<>>
        /\ sufficient_log = <<>>
        /\ trace = <<>>
        /\ probe = [op |-> "none", direc |-> direc, grid_p |-> c, result |-> <<>>]

\* one call MaxSpeed(tau, direc, grid_p)
SpeedMaxSpeed ==
    /\ phase = "speed"
    /\ probe.op = "none"
    /\ \E r \in {Call("MaxSpeed", <<tau, probe.direc, probe.grid_p>>)} :
           /\ probe' = [probe EXCEPT !.op = "MaxSpeed", !.result = r]
           /\ phase' = IF r.exited THEN "exited" ELSE "speed"
    /\ UNCHANGED <<DATA, eos, transport_coeffs_, flag_add_hydro_source, diss_helper,
                   hydro_source_terms_ptr, reconst_helper, tau, rk_flag,
                   arena_prev, arena_current, arena_future, pc,
                   necessary_log, sufficient_log, trace>>

SpeedNext == SpeedMaxSpeed

SpecSpeed == SpeedInit /\ [][SpeedNext]_vars

\* |u_dir|/u0 of the cell MaxSpeed was called on
SpeedV == RDiv(RAbs(probe.grid_p.u[probe.direc]), probe.grid_p.u[0])

\* C6: MaxSpeed returns only when |u_dir|/u0 <= f <= 1, a computed value less
\* than 1e-4 below |u_dir|/u0 being raised to exactly |u_dir|/u0; when f is
\* negative, below the 3-velocity by 1e-4 or more, or above 1 the process ends
\* and nothing is returned.
C6_ReturnsOnlyWithinBounds ==
    (probe.op = "MaxSpeed" /\ phase \in {"speed", "exited"}) =>
        LET r == probe.result
        IN  /\ ~r.exited =>
                  /\ RLe(SpeedV, r.f)
                  /\ RLe(r.f, One)
                  /\ r.f = (IF RLt(r.raw, SpeedV) THEN SpeedV ELSE r.raw)
            /\ (RLt(r.raw, PosZero) \/ RGt(r.raw, One)
                  \/ RGe(RSub(SpeedV, r.raw), Frac(1, 10000))) => r.exited

\* what the code does guarantee: a returned f is within the bounds, or was
\* computed from a numerator of exactly zero, or is not a number
C6_ReturnsWithinBoundsOrUnchecked ==
    (probe.op = "MaxSpeed" /\ phase \in {"speed", "exited"}) =>
        LET r == probe.result
        IN  /\ ~r.exited =>
                  \/ /\ RLe(SpeedV, r.f)
                     /\ RLe(r.f, One)
                     /\ r.f = (IF RLt(r.raw, SpeedV) THEN SpeedV ELSE r.raw)
                  \/ IsZero(r.num) /\ r.f = r.raw
                  \/ IsNaN(r.raw)
            /\ (RLt(r.raw, PosZero) \/ RGt(r.raw, One)) => r.exited
            /\ (RGe(RSub(SpeedV, r.raw), Frac(1, 10000)) /\ ~IsZero(r.num)) => r.exited

-----------------------------------------------------------------------------
(* Orthogonality and tracelessness of the shear tensor *)

\* the symmetric 4x4 shear tensor of a cell
W2(g, mu, nu) == g.Wmunu[map_2d_idx_to_1d(mu, nu)]

\* -u0*W[0][nu] + sum over i = 1..3 of u_i*W[i][nu]
Orthogonality(g, nu) ==
    RAdd(RNeg(RMul(g.u[0], W2(g, 0, nu))),
         RAdd(RMul(g.u[1], W2(g, 1, nu)),
              RAdd(RMul(g.u[2], W2(g, 2, nu)), RMul(g.u[3], W2(g, 3, nu)))))

\* -W00 + W11 + W22 + W33
MinkowskiTrace(g) ==
    RAdd(RNeg(W2(g, 0, 0)), RAdd(W2(g, 1, 1), RAdd(W2(g, 2, 2), W2(g, 3, 3))))

\* what the rounding of the arithmetic may leave of a sum that is zero
TraceSlack == Frac(1, 100)

Transverse(g) ==
    /\ \A nu \in 0..3 : RLe(RAbs(Orthogonality(g, nu)), TraceSlack)
    /\ RLe(RAbs(MinkowskiTrace(g)), TraceSlack)

\* C7: at the end of every dissipative update, regularization included, the
\* shear tensor of the future cell is orthogonal to the future velocity and
\* traceless under the Minkowski metric (to the rounding of the arithmetic);
\* the uniform rescalings of the regularization functions preserve both.
C7_OrthogonalTraceless ==
    /\ phase \in {"advance", "returned"} =>
           \A ix \in JustUpdated : Transverse(arena_future[ix])
    /\ (phase = "idle" /\ probe.op # "none" /\ Transverse(probe.in)) => Transverse(probe.out)

\* a moving cell with shear stress in two directions that the regularization
\* stage has rescaled
C7_Witness ==
    /\ phase \in {"advance", "returned"}
    /\ \E ix \in JustUpdated :
        LET g == arena_future[ix]
        IN  /\ DATA.Initial_profile \notin {0, 1}
            /\ g.u # Static
            /\ ~IsZero(g.Wmunu[4])
            /\ ~IsZero(g.Wmunu[1])
            /\ ~IsZero(g.Wmunu[0])
            /\ g.Wmunu[9] # RNeg(RAdd(g.Wmunu[4], g.Wmunu[7]))
            /\ g.Wmunu # LastW(ix).entered.Wmunu

-----------------------------------------------------------------------------
(* The causality functions applied twice *)

\* a second application of the causality function op to the cell its first
\* application produced
SecondPass(op) ==
    /\ phase = "idle"
    /\ probe.op = op
    /\ probe'.op = op
    /\ probe'.depth = probe.depth + 1

\* C8: a second application of nCausalityConstraints (of sCausalityConstraints)
\* to the cell the first one produced computes a factor of 1 and leaves bulk
\* pressure, shear and diffusion components and cached eigenvalues unchanged.
C8_Idempotent ==
    [][\A op \in {"nCausalityConstraints", "sCausalityConstraints"} :
          SecondPass(op) => (probe'.factor = One /\ probe'.out = probe'.in)]_vars

-----------------------------------------------------------------------------
(* A uniform grid at rest over one full step *)

\* every cell of the grid is at rest with the same densities and no
\* dissipative currents
UniformStatic(arena) ==
    \A ix \in Cells :
        /\ arena[ix].u = Static
        /\ arena[ix].epsilon = arena[0].epsilon
        /\ arena[ix].rhob = arena[0].rhob
        /\ arena[ix].Wmunu = ZeroW
        /\ arena[ix].pi_b = PosZero

\* both sub-steps of a run without sources and without dissipative physics
\* have been made; arena_prev holds the grid the step started from
FullStepDone ==
    /\ phase = "returned"
    /\ ~flag_add_hydro_source
    /\ DATA.viscosity_flag = 0
    /\ UniformStatic(arena_prev)

\* C9 as stated: the step gives back exactly the initial energy density,
\* charge density and velocity in every cell.
C9_FixedPoint ==
    FullStepDone =>
        \A ix \in Cells :
            /\ arena_future[ix].epsilon = arena_prev[ix].epsilon
            /\ arena_future[ix].rhob = arena_prev[ix].rhob
            /\ arena_future[ix].u = arena_prev[ix].u

\* C9, amended: the step gives back exactly the initial velocity in every cell
\* and leaves the grid uniform; positive energy and charge densities come back
\* lower than they were, still positive.
C9_RestPreserved ==
    FullStepDone =>
        \A ix \in Cells :
            /\ arena_future[ix].u = arena_prev[ix].u
            /\ arena_future[ix].epsilon = arena_future[0].epsilon
            /\ arena_future[ix].rhob = arena_future[0].rhob
            /\ RGt(arena_prev[ix].epsilon, PosZero) =>
                   /\ RLt(arena_future[ix].epsilon, arena_prev[ix].epsilon)
                   /\ RGt(arena_future[ix].epsilon, PosZero)
            /\ RGt(arena_prev[ix].rhob, PosZero) =>
                   /\ RLt(arena_future[ix].rhob, arena_prev[ix].rhob)
                   /\ RGt(arena_future[ix].rhob, PosZero)

\* the full step has been made on a uniform grid at rest with positive
\* densities
C9_Witness ==
    /\ FullStepDone
    /\ \A ix \in Cells : /\ RGt(arena_prev[ix].epsilon, PosZero)
                         /\ RGt(arena_prev[ix].rhob, PosZero)
                         /\ Len(trace[ix]) = 2

-----------------------------------------------------------------------------
(* The first necessary condition violated alone *)

\* n1 < 0 while n3, n5 and n6 are >= 0
OnlyN1Violated(g) ==
    LET n == Call("nCondition", <<g>>)
    IN  /\ RLt(n[0], PosZero)
        /\ \A i \in 1..3 : RGe(n[i], PosZero)

\* C10: when n1 alone is violated, nCausalityConstraints multiplies the bulk
\* pressure, all 14 stored shear and diffusion components and the 3 cached
\* eigenvalues by one factor alpha with 0 < alpha < 1, the solution of n1 = 0
\* (n1 of the rescaled cell is zero to the rounding of the arithmetic), which
\* is the only one because n1 falls strictly as alpha grows.
C10_OnlyN1Violated ==
    (phase = "idle" /\ probe.op = "nCausalityConstraints" /\ OnlyN1Violated(probe.in)) =>
        /\ RGt(probe.factor, PosZero)
        /\ RLt(probe.factor, One)
        /\ probe.out.pi_b = RMul(probe.in.pi_b, probe.factor)
        /\ \A mu \in WIdx : probe.out.Wmunu[mu] = RMul(probe.in.Wmunu[mu], probe.factor)
        /\ \A i \in 0..2 : probe.out.Lambdas[i] = RMul(probe.in.Lambdas[i], probe.factor)
        /\ RLe(RAbs(Call("nCondition", <<probe.out>>)[0]), ResidualSlack)
        /\ RGt(Call("nTransport", <<probe.in, 0>>), PosZero)
        /\ RLt(Call("nViscous", <<probe.in, 0>>), PosZero)

\* nCausalityConstraints has damped a cell with shear stress and bulk pressure
\* whose only violated condition was n1
C10_Witness ==
    /\ phase = "idle"
    /\ probe.op = "nCausalityConstraints"
    /\ OnlyN1Violated(probe.in)
    /\ ~IsZero(probe.in.Wmunu[4])
    /\ ~IsZero(probe.in.pi_b)
    /\ probe.out.Wmunu[4] # probe.in.Wmunu[4]

-----------------------------------------------------------------------------
(* BinarySearch applied alone: one of the three sufficiency functions of a  *)
(* cell is searched on a bracket [left, right], result holding the caller's *)
(* initial value on entry.                                                  *)

\* the brackets: empty, at the tolerance, wide, not starting at 0, inverted
SearchBrackets ==
    {<<PosZero, PosZero>>, <<PosZero, Frac(1, 10000)>>, <<PosZero, Frac(1, 16)>>,
     <<PosZero, One>>, <<Frac(1, 128), Half>>, <<Half, Frac(1, 128)>>}

\* the values result holds on entry
SearchInitials == {PosZero, Frac(7, 10)}

SearchInit ==
    \E m \in RegMedia : \E name \in RegCellNames : \E c \in {Call("RegCell", <<name>>)} :
    \E k \in {5, 7, 8} : \E b \in SearchBrackets : \E r0 \in SearchInitials :
        /\ DATA = Configs[3]
        /\ eos = m[1]
        /\ transport_coeffs_ = m[2]
        /\ flag_add_hydro_source = FALSE
        /\ hydro_source_terms_ptr = <<>>
        /\ diss_helper = <<>>
        /\ reconst_helper = [on_failure |-> "exit"]
        /\ tau = One
        /\ rk_flag = 0
        /\ arena_prev = <<>>
        /\ arena_current = <<>>
        /\ arena_future = <<>>
        /\ pc = <<>>
        /\ phase = "search"
        /\ necessary_log = <<>>
        /\ sufficient_log = <<>>
        /\ trace = <<>>
        /\ probe = [op |-> "none", k |-> k, left |-> b[1], right |-> b[2], initial |-> r0,
                    grid_pt |-> c, ret |-> <<>>]

\* one call BinarySearch(left, right, func, pt2object, result, grid_pt)
SearchBinarySearch ==
    /\ phase = "search"
    /\ probe.op = "none"
    /\ probe' = [probe EXCEPT
                    !.op = "BinarySearch",
                    !.ret = Call("BinarySearch", <<probe.left, probe.right, probe.k,
                                                   probe.initial, probe.grid_pt>>)]
    /\ UNCHANGED <<DATA, eos, transport_coeffs_, flag_add_hydro_source, diss_helper,
                   hydro_source_terms_ptr, reconst_helper, tau, rk_flag,
                   arena_prev, arena_current, arena_future, pc, phase,
                   necessary_log, sufficient_log, trace>>

SearchNext == SearchBinarySearch

SpecSearch == SearchInit /\ [][SearchNext]_vars

\* the calls of BinarySearch the state records: the one applied alone, or
\* those made by the call of sCausalityConstraints the probe records, on
\* [0, beta] with result 0 on entry
SearchCalls ==
    CASE phase = "search" /\ probe.op = "BinarySearch" ->
           {[k |-> probe.k, left |-> probe.left, right |-> probe.right,
             initial |-> probe.initial, grid_pt |-> probe.grid_pt, ret |-> probe.ret]}
      [] phase = "idle" /\ probe.op = "sCausalityConstraints" ->
           {[k       |-> StageFunctions[i],
             left    |-> PosZero,
             right   |-> BetaBefore(i),
             initial |-> PosZero,
             grid_pt |-> probe.in,
             ret     |-> Call("BinarySearch", <<PosZero, BetaBefore(i), StageFunctions[i],
                                                PosZero, probe.in>>)] :
                i \in {j \in 1..3 : probe.stages[j].ran}}
      [] OTHER -> {}

\* func at a damping factor, for the cell the search is made on
SearchFunc(c, beta) == Call("SuffHook", <<c.k, beta, c.grid_pt>>)

\* left <= right, func(left) >= 0 and func(right) < 0
Bracketed(c) ==
    /\ RLe(c.left, c.right)
    /\ RGe(SearchFunc(c, c.left), PosZero)
    /\ RLt(SearchFunc(c, c.right), PosZero)

\* right - left <= 1e-4 on entry
Narrow(c) == RLe(c.right -- c.left, BinaryTolerance)

\* a bracketed search reports success within 14 halvings, which bring a
\* bracket no wider than 1 within the tolerance, at three evaluations each
SearchSucceeds ==
    \A c \in SearchCalls : Bracketed(c) => (c.ret.status /\ c.ret.evals <= 3 * 14)

\* a bracketed search returns a result within the bracket
SearchResultInBracket ==
    \A c \in SearchCalls :
        Bracketed(c) => (RLe(c.left, c.ret.result) /\ RLe(c.ret.result, c.right))

\* a search entered with a narrow bracket reports success without a call of
\* func and leaves result at the caller's initial value
SearchNarrowUntouched ==
    \A c \in SearchCalls :
        Narrow(c) => (c.ret.status /\ c.ret.evals = 0 /\ c.ret.result = c.initial)

\* C21: BinarySearch called with left <= right, func(left) >= 0 and
\* func(right) < 0 terminates, does not return false, and returns a result
\* with left <= result <= right at which func(result) >= 0; called with
\* right - left <= 1e-4 it returns true without a call of func and leaves
\* result at the caller's initial value.
C21_BisectionFindsFactor ==
    /\ SearchSucceeds
    /\ SearchResultInBracket
    /\ SearchNarrowUntouched
    /\ \A c \in SearchCalls : Bracketed(c) => RGe(SearchFunc(c, c.ret.result), PosZero)

-----------------------------------------------------------------------------
(* The damping factor of sCausalityConstraints across its stages *)

\* beta after the closed-form stage and after the Suff5, Suff7, Suff8 stages
\* of the call the probe records
StageBetas ==
    <<Call("sClosedBeta", <<probe.in>>),
      probe.stages[1].minBeta, probe.stages[2].minBeta, probe.stages[3].minBeta>>

\* the probe records a call of sCausalityConstraints
SufficientCall == phase = "idle" /\ probe.op = "sCausalityConstraints"

\* beta stays in [0, 1] and never increases, and the last is the factor applied
BetaNeverIncreases ==
    SufficientCall =>
        /\ \A i \in 1..4 : RGe(StageBetas[i], PosZero) /\ RLe(StageBetas[i], One)
        /\ \A i \in 1..3 : RLe(StageBetas[i + 1], StageBetas[i])
        /\ probe.factor = StageBetas[4]

\* no bisection of the call reported failure
EverySearchSucceeded == \A i \in 1..3 : probe.stages[i].status

\* C22: in sCausalityConstraints beta stays in [0, 1] and never increases
\* across the closed-form, Suff5, Suff7 and Suff8 stages, and when every
\* bisection reported success Suff5, Suff7 and Suff8 are each >= 0 at the
\* factor applied to the cell.
C22_FactorSatisfiesSufficiency ==
    /\ BetaNeverIncreases
    /\ (SufficientCall /\ EverySearchSucceeded) =>
           \A k \in {5, 7, 8} : RGe(Call("SuffHook", <<k, probe.factor, probe.in>>), PosZero)

\* a margin for the value of a function at a last midpoint that tested negative
SearchSlack == Frac(1, 100)

\* when every bisection reported success the three functions are >= 0 at the
\* applied factor up to the slack of a last midpoint
SufficiencyUpToSlack ==
    (SufficientCall /\ EverySearchSucceeded) =>
        \A k \in {5, 7, 8} :
            RGe(Call("SuffHook", <<k, probe.factor, probe.in>>), RNeg(SearchSlack))

====
